---- MODULE Spec2Model ----
(***************************************************************************)
(* Captain Hooks: the PreToolUse security validator                        *)
(* (hooks/security-validator.hook.ts, hardened revision), the              *)
(* UserPromptSubmit skill activation evaluator (hooks/skill-eval.hook.ts), *)
(* the Stop orchestrator (hooks/stop-orchestrator.hook.ts) and the helpers *)
(* of hooks/lib they share (expandPath, readStdin).  Each hook is a        *)
(* process of its own; a behaviour follows one of them.                    *)
(*                                                                         *)
(* Strings are sequences of one-character strings.  Two characters stand   *)
(* for multi-character tokens of the real text: "H" is the text $HOME and  *)
(* "B" is the text ${HOME}.  Lower-case letters are word characters.       *)
(***************************************************************************)
EXTENDS Integers, Sequences, FiniteSets, TLC

VARIABLES
    hook,                                   \* which hook script the process runs
    stdin, pc, input, stdout, exitCode, logs,   \* the process
    ruleFile, raw, patterns,                \* security validator
    timer, received, race,                  \* readStdin
    rulesFile, cooldownMap, now, idx, matches, parts, prev,   \* skill-eval
    handlerFiles, wrappers                  \* stop orchestrator

stdinVars == <<timer, received, race>>
scorerVars == <<rulesFile, cooldownMap, now, idx, matches, parts, prev>>
stopVars == <<handlerFiles, wrappers>>
validatorVars == <<ruleFile, raw, patterns>>

\* What a step of the security validator's main leaves alone.
others == <<hook, stdinVars, scorerVars, stopVars>>

vars == <<hook, stdin, pc, input, stdout, exitCode, logs, validatorVars,
          stdinVars, scorerVars, stopVars>>

(***************************************************************************)
(* Bounds of the model.                                                    *)
(***************************************************************************)
MaxSegs == 3      \* path segments after the head of a generated file path
MaxRules == 2     \* entries per list of a generated rule file

(***************************************************************************)
(* Environment: os.homedir() and the working directory path.resolve uses.  *)
(***************************************************************************)
HomeDir == <<"/", "h">>
Cwd == <<"/", "h", "/", "w">>

WordChars == {"h", "w", "s", "k", "c", "e", "t", "r", "g", "x"}

\* String.prototype.startsWith
StartsWith(s, p) == Len(p) <= Len(s) /\ SubSeq(s, 1, Len(p)) = p

\* String.prototype.includes
Includes(s, t) ==
    \E i \in 0..(Len(s) - Len(t)) : SubSeq(s, i + 1, i + Len(t)) = t

(***************************************************************************)
(* hooks/lib/paths.ts: expandPath.  Three replaces applied in sequence,    *)
(* each anchored at the start and requiring "/" or the end after the token.*)
(***************************************************************************)
\* The replace without its lookahead (?=\/|$).
ReplaceLeading_AnyFollower(p, tok) ==
    IF Len(p) >= 1 /\ p[1] = tok THEN HomeDir \o Tail(p) ELSE p

ReplaceLeading(p, tok) ==
    IF Len(p) >= 1 /\ p[1] = tok /\ (Len(p) = 1 \/ p[2] = "/")
    THEN HomeDir \o Tail(p)
    ELSE p

expandPath(p) == ReplaceLeading(ReplaceLeading(ReplaceLeading(p, "H"), "B"), "~")

(***************************************************************************)
(* path.resolve with one argument: a relative path is taken from the       *)
(* working directory, then "." and empty segments are dropped and ".."     *)
(* removes the segment before it (never above the root).                   *)
(***************************************************************************)
RECURSIVE SplitSegs(_, _, _)
SplitSegs(s, i, cur) ==
    IF i > Len(s) THEN <<cur>>
    ELSE IF s[i] = "/" THEN <<cur>> \o SplitSegs(s, i + 1, <<>>)
    ELSE SplitSegs(s, i + 1, Append(cur, s[i]))

RECURSIVE Collapse(_, _, _)
Collapse(segs, i, stack) ==
    IF i > Len(segs) THEN stack
    ELSE IF segs[i] = <<>> \/ segs[i] = <<".">> THEN Collapse(segs, i + 1, stack)
    ELSE IF segs[i] = <<".", ".">>
         THEN Collapse(segs, i + 1,
                       IF Len(stack) = 0 THEN stack
                       ELSE SubSeq(stack, 1, Len(stack) - 1))
    ELSE Collapse(segs, i + 1, Append(stack, segs[i]))

RECURSIVE JoinSegs(_, _)
JoinSegs(stack, i) ==
    IF i > Len(stack) THEN <<>>
    ELSE <<"/">> \o stack[i] \o JoinSegs(stack, i + 1)

resolve(p) ==
    LET abs == IF Len(p) >= 1 /\ p[1] = "/" THEN p ELSE Cwd \o <<"/">> \o p
        stack == Collapse(SplitSegs(abs, 1, <<>>), 1, <<>>)
    IN  IF Len(stack) = 0 THEN <<"/">> ELSE JoinSegs(stack, 1)

(***************************************************************************)
(* normalizeHomeTokens: ${HOME} becomes ~, and $HOME becomes ~ when a word *)
(* boundary follows it (the next character is not a word character).       *)
(***************************************************************************)
normalizeHomeTokens(command) ==
    [i \in 1..Len(command) |->
        IF command[i] = "B" THEN "~"
        ELSE IF command[i] = "H"
                /\ (i = Len(command) \/ command[i + 1] \notin WordChars)
             THEN "~"
        ELSE command[i]]

(***************************************************************************)
(* Regular expressions.  A pattern source is a string; "(" makes it        *)
(* uncompilable (new RegExp throws), a leading "^" anchors it at the start *)
(* of the text, "." matches any character and every other character        *)
(* matches itself.  RegExp.prototype.test searches the whole text.         *)
(***************************************************************************)
Compiles(value) == \A i \in 1..Len(value) : value[i] # "("

Compile(value) ==
    [regex  |-> IF Len(value) >= 1 /\ value[1] = "^"
                THEN [anchored |-> TRUE, lit |-> Tail(value)]
                ELSE [anchored |-> FALSE, lit |-> value],
     source |-> value]

MatchAt(lit, s, i) ==
    /\ i + Len(lit) <= Len(s)
    /\ \A j \in 1..Len(lit) : lit[j] = "." \/ lit[j] = s[i + j]

RegexTest(regex, s) ==
    IF regex.anchored THEN MatchAt(regex.lit, s, 0)
    ELSE \E i \in 0..Len(s) : MatchAt(regex.lit, s, i)

(***************************************************************************)
(* The rule file security/patterns.yaml.  A line is modelled after         *)
(* trimming: "blank" (empty or a comment), "commands", "paths", "sub" (a   *)
(* line "<name>:"), "item" (a line "- <value>", the value with its quotes  *)
(* removed) or "other".                                                    *)
(***************************************************************************)
SectionLine(t) == [t |-> t, name |-> "", value |-> <<>>]
SubLine(n) == [t |-> "sub", name |-> n, value |-> <<>>]
ItemLine(v) == [t |-> "item", name |-> "", value |-> v]

NoPatterns(st) ==
    [st |-> st, block |-> <<>>, confirm |-> <<>>,
     zeroAccess |-> <<>>, confirmWrite |-> <<>>, skipped |-> 0]

\* AddItem with a pattern that does not compile kept as one that matches
\* every command.
AddItem_KeepInvalid(acc, sec, sub, value) ==
    LET any == [regex |-> [anchored |-> FALSE, lit |-> <<>>], source |-> value]
        compiled == IF Compiles(value) THEN Compile(value) ELSE any
    IN  IF sec = "commands" THEN
            IF sub = "block" THEN [acc EXCEPT !.block = Append(@, compiled)]
            ELSE IF sub = "confirm" THEN [acc EXCEPT !.confirm = Append(@, compiled)]
            ELSE acc
        ELSE IF sec = "paths" THEN
            IF sub = "zeroAccess"
            THEN [acc EXCEPT !.zeroAccess = Append(@, expandPath(value))]
            ELSE IF sub = "confirmWrite"
            THEN [acc EXCEPT !.confirmWrite = Append(@, value)]
            ELSE acc
        ELSE acc

\* One iteration of the line loop of loadPatterns on an "item" line.
AddItem(acc, sec, sub, value) ==
    IF sec = "commands" THEN
        IF ~Compiles(value) THEN [acc EXCEPT !.skipped = @ + 1]
        ELSE IF sub = "block" THEN [acc EXCEPT !.block = Append(@, Compile(value))]
        ELSE IF sub = "confirm" THEN [acc EXCEPT !.confirm = Append(@, Compile(value))]
        ELSE acc
    ELSE IF sec = "paths" THEN
        IF sub = "zeroAccess"
        THEN [acc EXCEPT !.zeroAccess = Append(@, expandPath(value))]
        ELSE IF sub = "confirmWrite"
        THEN [acc EXCEPT !.confirmWrite = Append(@, value)]
        ELSE acc
    ELSE acc

RECURSIVE ScanLines(_, _, _, _, _)
ScanLines(lines, i, sec, sub, acc) ==
    IF i > Len(lines) THEN acc
    ELSE LET l == lines[i] IN
         IF l.t = "commands" THEN ScanLines(lines, i + 1, "commands", sub, acc)
         ELSE IF l.t = "paths" THEN ScanLines(lines, i + 1, "paths", sub, acc)
         ELSE IF l.t = "sub" THEN ScanLines(lines, i + 1, sec, l.name, acc)
         ELSE IF l.t = "item"
              THEN ScanLines(lines, i + 1, sec, sub, AddItem(acc, sec, sub, l.value))
         ELSE ScanLines(lines, i + 1, sec, sub, acc)

\* The earlier revision's catch branch: a failed read yields {} as well.
loadPatterns_FailOpen(file) ==
    IF ~file.exists \/ ~file.readable THEN NoPatterns("loaded")
    ELSE ScanLines(file.lines, 1, "", "", NoPatterns("loaded"))

\* loadPatterns: {} when the file is absent, null when reading it throws.
loadPatterns(file) ==
    IF ~file.exists THEN NoPatterns("loaded")
    ELSE IF ~file.readable THEN NoPatterns("failed")
    ELSE ScanLines(file.lines, 1, "", "", NoPatterns("loaded"))

(***************************************************************************)
(* JSON payloads.  A field is its JSON kind plus, for a string, its text.  *)
(***************************************************************************)
FieldKinds == {"missing", "null", "bool", "number", "string", "array", "object"}

NoField == [k |-> "missing", s |-> <<>>]
OtherField(k) == [k |-> k, s |-> <<>>]
StrField(s) == [k |-> "string", s |-> s]
NameField(k, n) == [k |-> k, name |-> n]

NullValue ==
    [top |-> "null", tn |-> NameField("missing", ""), sid |-> "missing",
     ti |-> "missing", cmd |-> NoField, fp |-> NoField]

KNOWN_TOOLS == {"Bash", "Write", "Edit", "Read", "Glob", "Grep"}

\* validateInput: TRUE when it returns the object, FALSE when it returns null.
\* typeof x === 'object' holds of objects and of arrays (null is excluded).
validateInput(r) ==
    /\ r.top \in {"object", "array"}
    /\ r.tn.k = "string"
    /\ r.sid = "string"
    /\ r.ti \in {"object", "array"}

\* extractCommand / extractPath: the string, or null (here: k # "string").
extractCommand(inp) == IF inp.cmd.k = "string" THEN inp.cmd ELSE NoField
extractPath(inp) == IF inp.fp.k = "string" THEN inp.fp ELSE NoField

\* JavaScript truthiness of a string-or-null: a non-empty string.
Truthy(f) == f.k = "string" /\ f.s # <<>>

(***************************************************************************)
(* commandReferencesProtectedPath                                          *)
(***************************************************************************)
ReferencesOne(normalized, protectedPath) ==
    LET expandedProtected == resolve(expandPath(protectedPath))
        home == resolve(expandPath(<<"~">>))
        suffix == SubSeq(expandedProtected, Len(home) + 1, Len(expandedProtected))
    IN  \/ Includes(normalized, expandedProtected)
        \/ /\ StartsWith(expandedProtected, home)
           /\ suffix # <<>>
           /\ Includes(normalized, <<"~">> \o suffix)

commandReferencesProtectedPath(command, protectedPaths) ==
    LET normalized == normalizeHomeTokens(command)
    IN  \E i \in 1..Len(protectedPaths) : ReferencesOne(normalized, protectedPaths[i])

(***************************************************************************)
(* Inputs of one invocation: the payload on stdin and the rule file.       *)
(***************************************************************************)
\* All sequences over S of length at most n.
RECURSIVE SeqsUpTo(_, _)
SeqsUpTo(S, n) ==
    IF n = 0 THEN {<<>>}
    ELSE LET shorter == SeqsUpTo(S, n - 1)
         IN  shorter \cup {Append(q, x) : q \in {r \in shorter : Len(r) = n - 1}, x \in S}

RECURSIVE Flatten(_, _)
Flatten(segs, i) ==
    IF i > Len(segs) THEN <<>> ELSE <<"/">> \o segs[i] \o Flatten(segs, i + 1)

\* Spellings of the start of a path: ~, $HOME, ${HOME}, the absolute home,
\* a relative path, and a directory outside the home.
PathHeads == {<<"~">>, <<"H">>, <<"B">>, HomeDir, <<"w">>, <<"/", "t">>}
PathSegs == {<<"s">>, <<"s", "k">>, <<".", ".">>, <<"e">>}

FilePaths ==
    {<<>>} \cup {h \o Flatten(q, 1) : h \in PathHeads, q \in SeqsUpTo(PathSegs, MaxSegs)}

\* Shell commands: [sudo] verb argument [; chained command].
CmdPre == {<<>>, <<"x", " ">>}
CmdVerb == {<<"r">>, <<"g">>, <<"c">>}
CmdArg ==
    {<<>>,
     <<" ", "~", "/", "s", "/", "k">>, <<" ", "H", "/", "s", "/", "k">>,
     <<" ", "B", "/", "s", "/", "k">>, <<" ", "/", "h", "/", "s", "/", "k">>,
     <<" ", "~", "/", "e">>, <<" ", "H", "/", "e">>,
     <<" ", "B", "/", "e">>, <<" ", "/", "h", "/", "e">>,
     <<" ", "H", "s">>, <<" ", "/", "t">>}
CmdPost == {<<>>, <<";", "c">>}

Commands ==
    {<<>>} \cup {a \o v \o g \o z : a \in CmdPre, v \in CmdVerb, g \in CmdArg, z \in CmdPost}

\* Rule lists: runs of at most MaxRules consecutive entries of a pool.
RunsFrom(pool, i) ==
    {SubSeq(pool, i, j) : j \in i..(IF i + MaxRules - 1 < Len(pool)
                                     THEN i + MaxRules - 1 ELSE Len(pool))}

Runs(pool) == {<<>>} \cup UNION {RunsFrom(pool, i) : i \in 1..Len(pool)}

BlockPool == << <<"(">>, <<"r">>, <<"^", "r">>, <<"g", ".", "~">> >>
ConfirmPool == << <<"(">>, <<"g">>, <<"r">>, <<"/", "e">>, <<"H">> >>
ZeroPool == << <<"/", "t">>, <<"~", "/", "s">>, <<"~">>, <<"H", "/", "s", "/">> >>
WritePool == << <<"e">>, <<"~", "/", "s">>, <<"s", "k">> >>

RECURSIVE Items(_, _)
Items(values, i) ==
    IF i > Len(values) THEN <<>> ELSE <<ItemLine(values[i])>> \o Items(values, i + 1)

FileLines(b, c, z, w) ==
    <<SectionLine("blank"), SectionLine("commands"), SubLine("block")>> \o Items(b, 1)
      \o <<SubLine("confirm")>> \o Items(c, 1)
      \o <<SectionLine("paths"), SubLine("zeroAccess")>> \o Items(z, 1)
      \o <<SubLine("confirmWrite")>> \o Items(w, 1)

AbsentFile == [exists |-> FALSE, readable |-> FALSE, lines |-> <<>>]
UnreadableFile == [exists |-> TRUE, readable |-> FALSE, lines |-> <<>>]
RuleFileOf(b, c, z, w) ==
    [exists |-> TRUE, readable |-> TRUE, lines |-> FileLines(b, c, z, w)]

\* A file that is read but is not of the expected form: "block" and
\* "zeroAccess" stand without their colon above an item each.
MalformedFile ==
    [exists |-> TRUE, readable |-> TRUE,
     lines |-> <<SectionLine("commands"), SectionLine("other"), ItemLine(<<"r">>),
                 SectionLine("paths"), SectionLine("other"), ItemLine(<<"/", "t">>)>>]

ObjectPayload(tn, sid, ti, cmd, fp) ==
    [text |-> "json",
     val |-> [top |-> "object", tn |-> tn, sid |-> sid, ti |-> ti,
              cmd |-> cmd, fp |-> fp]]

NonObjectPayload(text, top) == [text |-> text, val |-> [NullValue EXCEPT !.top = top]]

\* Payloads exercising the envelope: no text, empty text, text that is not
\* JSON, JSON of every kind, objects with every kind of field.
EnvelopePayloads ==
    {NonObjectPayload(t, "null") : t \in {"none", "empty", "garbage"}}
      \cup {NonObjectPayload("json", k) : k \in FieldKinds \ {"missing", "object"}}
      \cup {ObjectPayload(NameField(tk, IF tk = "string" THEN n ELSE ""), sk, ik,
                          NoField, IF ik = "object" THEN f ELSE NoField) :
              tk \in FieldKinds, n \in {"Bash", "Read"}, sk \in FieldKinds,
              ik \in FieldKinds, f \in {NoField, StrField(<<"/", "t">>)}}

BashPayloads ==
    {ObjectPayload(NameField("string", "Bash"), "string", "object", c, f) :
        c \in {NoField, OtherField("number"), OtherField("array"), OtherField("null")}
                \cup {StrField(x) : x \in Commands},
        f \in {NoField, StrField(<<"~", "/", "s", "/", "k">>)}}

PathPayloads ==
    {ObjectPayload(NameField("string", n), "string", "object", NoField, f) :
        n \in {"Read", "Write", "Edit", "Task"},
        f \in {NoField, OtherField("number")} \cup {StrField(x) : x \in FilePaths}}

EnvelopeRuleFiles ==
    {AbsentFile, UnreadableFile, MalformedFile,
     RuleFileOf(<<>>, <<>>, << <<"/", "t">> >>, <<>>)}

BashRuleFiles ==
    {AbsentFile, UnreadableFile, MalformedFile}
      \cup {RuleFileOf(b, c, z, <<>>) :
              b \in Runs(BlockPool), c \in Runs(ConfirmPool), z \in Runs(ZeroPool)}

PathRuleFiles ==
    {AbsentFile, UnreadableFile, MalformedFile}
      \cup {RuleFileOf(<<>>, <<>>, z, w) : z \in Runs(ZeroPool), w \in Runs(WritePool)}

(***************************************************************************)
(* The decision records written to stdout.                                 *)
(***************************************************************************)
Allow == [decision |-> "allow", message |-> "continue", source |-> <<>>]
Decision(d, m, src) == [decision |-> d, message |-> m, source |-> src]

\* Index of the first pattern of the list that matches, 0 when none does.
FirstMatch(list, text) ==
    IF \E i \in 1..Len(list) : RegexTest(list[i].regex, text)
    THEN CHOOSE i \in 1..Len(list) :
            /\ RegexTest(list[i].regex, text)
            /\ \A j \in 1..(i - 1) : ~RegexTest(list[j].regex, text)
    ELSE 0

\* expanded.startsWith(resolve(protected_path)) for some zeroAccess entry
InZeroAccess(expanded, zeroAccess) ==
    \E i \in 1..Len(zeroAccess) : StartsWith(expanded, resolve(zeroAccess[i]))

\* expanded.includes(confirmPath) for some confirmWrite entry
InConfirmWrite(expanded, confirmWrite) ==
    \E i \in 1..Len(confirmWrite) : Includes(expanded, confirmWrite[i])

\* console.log without the process.exit(0) that follows it.
Emit_NoExit(rec) ==
    /\ stdout' = Append(stdout, rec)
    /\ exitCode' = exitCode
    /\ pc' = IF pc = "allow" THEN "done" ELSE "allow"

Emit(rec) ==
    /\ stdout' = Append(stdout, rec)
    /\ exitCode' = 0
    /\ pc' = "done"

Goto(label) ==
    /\ pc' = label
    /\ UNCHANGED <<stdout, exitCode>>

(***************************************************************************)
(* main, one action per step.                                              *)
(***************************************************************************)
\* The variables of the hooks the process does not run keep these values.
StdinIdle == timer = [st |-> "unset", seen |-> 0] /\ received = 0 /\ race = "pending"

ScorerIdle ==
    /\ rulesFile = <<>>
    /\ cooldownMap = {}
    /\ now = 0
    /\ idx = 0
    /\ matches = <<>>
    /\ parts = <<>>
    /\ prev = <<>>

StopIdle == handlerFiles = [exists |-> FALSE, files |-> <<>>] /\ wrappers = <<>>

ValidatorIdle ==
    ruleFile = AbsentFile /\ raw = NullValue /\ patterns = NoPatterns("unset")

\* The state of the process when main is entered.
Start ==
    /\ pc = "readStdin"
    /\ raw = NullValue
    /\ input = NullValue
    /\ patterns = NoPatterns("unset")
    /\ stdout = <<>>
    /\ exitCode = -1
    /\ logs = <<>>

Init ==
    /\ \/ stdin \in EnvelopePayloads /\ ruleFile \in EnvelopeRuleFiles
       \/ stdin \in BashPayloads /\ ruleFile \in BashRuleFiles
       \/ stdin \in PathPayloads /\ ruleFile \in PathRuleFiles
    /\ Start
    /\ hook = "security-validator"
    /\ StdinIdle /\ ScorerIdle /\ StopIdle

\* readStdin(200): null on a timeout, on blank text and on text that does
\* not parse; the parsed value otherwise.
ReadStdin ==
    /\ pc = "readStdin"
    /\ \E timedOut \in BOOLEAN :
          raw' = IF timedOut \/ stdin.text # "json" THEN NullValue ELSE stdin.val
    /\ pc' = "validateInput"
    /\ UNCHANGED <<others, stdin, ruleFile, input, patterns, stdout, exitCode, logs>>

\* validateInput, the fail-closed exit, and the unknown-tool log line
ValidateInput ==
    /\ pc = "validateInput"
    /\ IF ~validateInput(raw)
       THEN /\ logs' = Append(logs, "invalid-input")
            /\ exitCode' = 2
            /\ pc' = "done"
            /\ UNCHANGED <<input, stdout>>
       ELSE /\ input' = raw
            /\ logs' = IF raw.tn.name \notin KNOWN_TOOLS
                       THEN Append(logs, "unknown-tool") ELSE logs
            /\ pc' = "loadPatterns"
            /\ UNCHANGED <<stdout, exitCode>>
    /\ UNCHANGED <<others, stdin, ruleFile, raw, patterns>>

LoadPatterns ==
    /\ pc = "loadPatterns"
    /\ patterns' = loadPatterns(ruleFile)
    /\ logs' = logs \o [i \in 1..patterns'.skipped |-> "invalid-regex"]
                    \o (IF patterns'.st = "failed" THEN <<"load-failed">> ELSE <<>>)
    /\ IF patterns'.st = "failed"
       THEN Emit(Decision("block", "load-failed", <<>>))
       ELSE Goto(IF input.tn.name = "Bash" THEN "bashCommand" ELSE "filePath")
    /\ UNCHANGED <<others, stdin, ruleFile, raw, input>>

\* The earlier revision: a Bash call without a string command skips the
\* command checks.
BashCommand_SkipChecks ==
    /\ pc = "bashCommand"
    /\ IF ~Truthy(extractCommand(input))
       THEN Goto("filePath")
       ELSE Goto("blockPatterns")
    /\ UNCHANGED <<others, stdin, ruleFile, raw, input, patterns, logs>>

\* Bash: the command must be a non-empty string
BashCommand ==
    /\ pc = "bashCommand"
    /\ IF ~Truthy(extractCommand(input))
       THEN Emit(Decision("block", "bad-command", <<>>))
       ELSE Goto("blockPatterns")
    /\ UNCHANGED <<others, stdin, ruleFile, raw, input, patterns, logs>>

cmdForPolicy == normalizeHomeTokens(extractCommand(input).s)

\* Block patterns tested against the command as typed, not normalized.
BlockPatterns_RawCommand ==
    /\ pc = "blockPatterns"
    /\ LET m == FirstMatch(patterns.block, extractCommand(input).s)
       IN  IF m # 0
           THEN Emit(Decision("block", "block-pattern", patterns.block[m].source))
           ELSE Goto("protectedPath")
    /\ UNCHANGED <<others, stdin, ruleFile, raw, input, patterns, logs>>

BlockPatterns ==
    /\ pc = "blockPatterns"
    /\ LET m == FirstMatch(patterns.block, cmdForPolicy)
       IN  IF m # 0
           THEN Emit(Decision("block", "block-pattern", patterns.block[m].source))
           ELSE Goto("protectedPath")
    /\ UNCHANGED <<others, stdin, ruleFile, raw, input, patterns, logs>>

\* The protected-path reference check placed after the confirm patterns.
ProtectedPath_Omitted ==
    /\ pc = "protectedPath"
    /\ Goto("confirmPatterns")
    /\ UNCHANGED <<others, stdin, ruleFile, raw, input, patterns, logs>>

ProtectedPath ==
    /\ pc = "protectedPath"
    /\ IF commandReferencesProtectedPath(cmdForPolicy, patterns.zeroAccess)
       THEN Emit(Decision("block", "protected-path", <<>>))
       ELSE Goto("confirmPatterns")
    /\ UNCHANGED <<others, stdin, ruleFile, raw, input, patterns, logs>>

ConfirmPatterns ==
    /\ pc = "confirmPatterns"
    /\ LET m == FirstMatch(patterns.confirm, cmdForPolicy)
       IN  IF m # 0
           THEN Emit(Decision("ask", "confirm-pattern", patterns.confirm[m].source))
           ELSE Goto("filePath")
    /\ UNCHANGED <<others, stdin, ruleFile, raw, input, patterns, logs>>

\* The path with its home token expanded but ".." segments left in place.
expanded_Unresolved == expandPath(extractPath(input).s)

expanded == resolve(expandPath(extractPath(input).s))

\* File path checks: zero access paths
ZeroAccess ==
    /\ pc = "filePath"
    /\ IF ~Truthy(extractPath(input)) THEN Goto("allow")
       ELSE IF InZeroAccess(expanded, patterns.zeroAccess)
       THEN Emit(Decision("block", "zero-access", <<>>))
       ELSE Goto("confirmWrite")
    /\ UNCHANGED <<others, stdin, ruleFile, raw, input, patterns, logs>>

\* File path checks: confirm write paths
ConfirmWrite ==
    /\ pc = "confirmWrite"
    /\ IF /\ input.tn.name \in {"Write", "Edit"}
          /\ InConfirmWrite(expanded, patterns.confirmWrite)
       THEN Emit(Decision("ask", "confirm-write", <<>>))
       ELSE Goto("allow")
    /\ UNCHANGED <<others, stdin, ruleFile, raw, input, patterns, logs>>

DefaultAllow ==
    /\ pc = "allow"
    /\ Emit(Allow)
    /\ UNCHANGED <<others, stdin, ruleFile, raw, input, patterns, logs>>

Next ==
    \/ ReadStdin
    \/ ValidateInput
    \/ LoadPatterns
    \/ BashCommand
    \/ BlockPatterns
    \/ ProtectedPath
    \/ ConfirmPatterns
    \/ ZeroAccess
    \/ ConfirmWrite
    \/ DefaultAllow

Spec == Init /\ [][Next]_vars

(***************************************************************************)
(* Properties.                                                             *)
(***************************************************************************)
Done == pc = "done"
Decided(d) == Done /\ exitCode = 0 /\ Len(stdout) = 1 /\ stdout[1].decision = d

\* The payload is a JSON object whose tool_name and session_id are strings
\* and whose tool_input is a JSON object.
WellFormedPayload(v) ==
    v.top = "object" /\ v.tn.k = "string" /\ v.sid = "string" /\ v.ti = "object"

\* p is the directory e or lies beneath it.
AtOrUnder(p, e) == p = e \/ e = <<"/">> \/ StartsWith(p, e \o <<"/">>)

\* C1: every payload that is absent, empty, not JSON, not a JSON object, or
\* whose tool_name or session_id is not a string, or whose tool_input is
\* missing, null or not an object, ends the process with status 2, with
\* nothing on stdout and before the rule file is loaded.
C1_MalformedExitsTwo ==
    (stdin.text # "json" \/ ~WellFormedPayload(stdin.val)) =>
        /\ pc \in {"readStdin", "validateInput", "done"}
        /\ patterns.st = "unset"
        /\ stdout = <<>>
        /\ Done => exitCode = 2

\* C2: when the rule file exists but cannot be loaded, every input that
\* passes validation is answered with a block decision; no allow and no ask
\* is ever written.
C2_LoadFailureBlocks ==
    (ruleFile.exists /\ ~ruleFile.readable) =>
        /\ \A i \in 1..Len(stdout) : stdout[i].decision = "block"
        /\ (Done /\ validateInput(raw)) => Decided("block")

C2_Witness ==
    /\ ruleFile.exists /\ ~ruleFile.readable
    /\ validateInput(raw) /\ input.tn.name = "Read" /\ input.fp.k = "string"
    /\ Decided("block") /\ stdout[1].message = "load-failed"

NoBlockMatch(cmd) ==
    \A i \in 1..Len(patterns.block) :
        ~RegexTest(patterns.block[i].regex, normalizeHomeTokens(cmd))

NoConfirmMatch(cmd) ==
    \A i \in 1..Len(patterns.confirm) :
        ~RegexTest(patterns.confirm[i].regex, normalizeHomeTokens(cmd))

BashPasses(v) ==
    \/ v.tn.name # "Bash"
    \/ /\ v.cmd.k = "string" /\ v.cmd.s # <<>>
       /\ NoBlockMatch(v.cmd.s)
       /\ ~commandReferencesProtectedPath(normalizeHomeTokens(v.cmd.s),
                                          patterns.zeroAccess)
       /\ NoConfirmMatch(v.cmd.s)

PathPasses(v) ==
    \/ v.fp.k # "string"
    \/ LET canon == resolve(expandPath(v.fp.s))
       IN  /\ ~InZeroAccess(canon, patterns.zeroAccess)
           /\ v.tn.name \in {"Write", "Edit"}
                 => ~InConfirmWrite(canon, patterns.confirmWrite)

\* C3: {continue:true} is written if and only if the input is well-formed,
\* the rule store loaded and no check fires: the tool is not Bash or its
\* command is a non-empty string that matches no block pattern, references
\* no zero-access path and matches no confirm pattern; and tool_input has
\* no string file_path or its canonical form is matched by no zeroAccess
\* entry and, for Write and Edit, by no confirmWrite entry.
C3_AllowIffNothingFires ==
    Done =>
        ((stdout = <<Allow>>) <=>
            /\ WellFormedPayload(raw)
            /\ patterns.st = "loaded"
            /\ BashPasses(raw)
            /\ PathPasses(raw))

\* C4: a Bash command whose home-normalized text is matched somewhere by a
\* loaded block pattern is answered with block and exit status 0, whatever
\* precedes or follows the match and whatever the confirm patterns and the
\* file path checks would say.
C4_BlockPatternBlocks ==
    (/\ Done /\ validateInput(raw) /\ patterns.st = "loaded"
     /\ raw.tn.name = "Bash" /\ raw.cmd.k = "string"
     /\ ~NoBlockMatch(raw.cmd.s))
        => Decided("block")

C4_Witness ==
    /\ Decided("block") /\ stdout[1].message = "block-pattern"
    /\ raw.tn.name = "Bash"
    /\ StartsWith(raw.cmd.s, <<"x", " ">>)
    /\ raw.cmd.s[Len(raw.cmd.s)] = "c"
    /\ Includes(raw.cmd.s, <<"H">>)
    /\ ~NoConfirmMatch(raw.cmd.s)
    /\ raw.fp.k = "string"

(***************************************************************************)
(* Words of a command: maximal runs of characters other than " " and ";".  *)
(***************************************************************************)
IsWordOf(cmd, i, j) ==
    /\ 1 <= i /\ i <= j /\ j <= Len(cmd)
    /\ \A n \in i..j : cmd[n] \notin {" ", ";"}
    /\ (i = 1 \/ cmd[i - 1] \in {" ", ";"})
    /\ (j = Len(cmd) \/ cmd[j + 1] \in {" ", ";"})

\* The word spells a path through the home directory: ~, $HOME or ${HOME}
\* followed by "/" or nothing, or the absolute home path.
HomeSpelled(w) ==
    \/ w[1] \in {"~", "H", "B"} /\ (Len(w) = 1 \/ w[2] = "/")
    \/ AtOrUnder(w, HomeDir)

\* Some word of the command is a home-spelled path at or under a zeroAccess
\* entry.
RefersToZeroAccess(cmd) ==
    \E i, j \in 1..Len(cmd) :
        /\ IsWordOf(cmd, i, j)
        /\ HomeSpelled(SubSeq(cmd, i, j))
        /\ \E n \in 1..Len(patterns.zeroAccess) :
              AtOrUnder(resolve(expandPath(SubSeq(cmd, i, j))),
                        resolve(patterns.zeroAccess[n]))

\* C5: a Bash command that refers to a location at or under a zeroAccess
\* path is blocked whichever spelling of the home directory it uses (~,
\* $HOME, ${HOME} or the absolute home path).
C5_HomeSpellingsBlocked ==
    (/\ Done /\ WellFormedPayload(raw) /\ patterns.st = "loaded"
     /\ raw.tn.name = "Bash" /\ raw.cmd.k = "string"
     /\ RefersToZeroAccess(raw.cmd.s))
        => Decided("block")

CanonUnderZeroAccess(path) ==
    \E n \in 1..Len(patterns.zeroAccess) :
        AtOrUnder(resolve(expandPath(path)), resolve(patterns.zeroAccess[n]))

PathRequest(tools) ==
    /\ Done /\ WellFormedPayload(raw) /\ patterns.st = "loaded"
    /\ raw.tn.name \in tools /\ raw.fp.k = "string"

\* C6 as stated: for Read, Write and Edit, every string file_path whose
\* canonical form (home token expanded, "." and ".." collapsed) is a
\* zeroAccess entry or a descendant of one is answered with block.
C6_Original ==
    (PathRequest({"Read", "Write", "Edit"}) /\ CanonUnderZeroAccess(raw.fp.s))
        => Decided("block")

\* C6 amended: for Read, Write and Edit, every non-empty file_path whose
\* canonical form is a zeroAccess entry or a descendant of one is answered
\* with block; no ".." spelling of such a path yields ask or allow.  (An
\* empty file_path is treated as absent and is not checked.)
C6_ZeroAccessPathBlocks ==
    (/\ PathRequest({"Read", "Write", "Edit"})
     /\ raw.fp.s # <<>>
     /\ CanonUnderZeroAccess(raw.fp.s))
        => Decided("block")

C6_Witness ==
    /\ PathRequest({"Read", "Write", "Edit"})
    /\ Includes(raw.fp.s, <<"/", ".", ".", "/">>)
    /\ raw.fp.s[1] = "B"
    /\ ~InZeroAccess(expandPath(raw.fp.s), patterns.zeroAccess)
    /\ CanonUnderZeroAccess(raw.fp.s)
    /\ Decided("block") /\ stdout[1].message = "zero-access"

BashWithoutCommand ==
    /\ Done /\ WellFormedPayload(raw)
    /\ raw.tn.name = "Bash" /\ raw.cmd.k # "string"

\* C7 as stated: a Bash call whose command is missing or not a string ends
\* with exit status 2, like every other malformed input.
C7_Original == BashWithoutCommand => exitCode = 2

\* C7 amended: a Bash call whose command is missing or not a string is
\* answered with one block decision record on stdout and exit status 0,
\* not with the abnormal status 2.
C7_NoCommandBlocksWithZero ==
    BashWithoutCommand => (Decided("block") /\ exitCode # 2)

C7_Witness ==
    /\ BashWithoutCommand /\ raw.cmd.k = "array"
    /\ patterns.st = "loaded"
    /\ Decided("block") /\ stdout[1].message = "bad-command"

BashRequest ==
    /\ Done /\ WellFormedPayload(raw) /\ patterns.st = "loaded"
    /\ raw.tn.name = "Bash" /\ raw.cmd.k = "string" /\ raw.cmd.s # <<>>

References(cmd) ==
    commandReferencesProtectedPath(normalizeHomeTokens(cmd), patterns.zeroAccess)

\* C8 as stated: the order is block patterns, confirm patterns, protected
\* path reference; a command that matches no block pattern but matches a
\* confirm pattern yields ask.
C8_Original ==
    (BashRequest /\ NoBlockMatch(raw.cmd.s) /\ ~NoConfirmMatch(raw.cmd.s))
        => Decided("ask")

\* C8 amended: the order is block patterns, protected-path reference,
\* confirm patterns.  A command that matches a block pattern is blocked by
\* it; one that matches no block pattern and references a zero-access path
\* is blocked for the reference, whether or not a confirm pattern matches;
\* one that does neither and matches a confirm pattern yields ask.
C8_BashCheckOrder ==
    BashRequest =>
        /\ ~NoBlockMatch(raw.cmd.s)
              => (Decided("block") /\ stdout[1].message = "block-pattern")
        /\ (NoBlockMatch(raw.cmd.s) /\ References(raw.cmd.s))
              => (Decided("block") /\ stdout[1].message = "protected-path")
        /\ (/\ NoBlockMatch(raw.cmd.s) /\ ~References(raw.cmd.s)
            /\ ~NoConfirmMatch(raw.cmd.s))
              => (Decided("ask") /\ stdout[1].message = "confirm-pattern")

C8_Witness ==
    /\ BashRequest
    /\ NoBlockMatch(raw.cmd.s) /\ Len(patterns.block) > 0
    /\ References(raw.cmd.s)
    /\ ~NoConfirmMatch(raw.cmd.s)
    /\ Decided("block") /\ stdout[1].message = "protected-path"

MatchesConfirmWrite(path) ==
    InConfirmWrite(resolve(expandPath(path)), patterns.confirmWrite)

\* C9: a Write or Edit whose canonical file_path is not under any
\* zeroAccess entry but matches a confirmWrite entry yields ask; a Read or
\* other non-mutating tool on the same path yields allow; a path under a
\* zeroAccess entry yields block even when a confirmWrite entry matches.
C9_ConfirmWriteDecisions ==
    /\ (/\ PathRequest({"Write", "Edit"})
        /\ ~CanonUnderZeroAccess(raw.fp.s) /\ MatchesConfirmWrite(raw.fp.s))
          => Decided("ask")
    /\ (/\ PathRequest({"Read", "Glob", "Grep", "Task"})
        /\ ~CanonUnderZeroAccess(raw.fp.s) /\ MatchesConfirmWrite(raw.fp.s))
          => Decided("allow")
    /\ (/\ PathRequest({"Read", "Write", "Edit", "Glob", "Grep", "Task"})
        /\ raw.fp.s # <<>>
        /\ CanonUnderZeroAccess(raw.fp.s) /\ MatchesConfirmWrite(raw.fp.s))
          => Decided("block")

Rank(label) ==
    CASE label = "readStdin" -> 0
      [] label = "validateInput" -> 1
      [] label = "loadPatterns" -> 2
      [] label = "bashCommand" -> 3
      [] label = "blockPatterns" -> 4
      [] label = "protectedPath" -> 5
      [] label = "confirmPatterns" -> 6
      [] label = "filePath" -> 7
      [] label = "confirmWrite" -> 8
      [] label = "allow" -> 9
      [] label = "done" -> 10

C10_Outcome ==
    /\ Done <=> exitCode \in {0, 2}
    /\ ~Done => (exitCode = -1 /\ stdout = <<>>)
    /\ exitCode = 2 => (stdout = <<>> /\ ~validateInput(raw))
    /\ exitCode = 0 =>
          /\ Len(stdout) = 1
          /\ stdout[1].decision \in {"block", "ask", "allow"}
          /\ validateInput(raw)

\* C10: every invocation is a single pass with exactly one terminal
\* outcome, exit status 2 with nothing on stdout or exit status 0 with
\* exactly one decision record (block, ask or allow).  Every step moves
\* forward in the text of main, so no step is repeated and the pass is
\* finite; no step is taken after a record has been written or the process
\* has exited; and status 2 occurs only when the input failed validation.
C10_SinglePassOneOutcome ==
    /\ []C10_Outcome
    /\ [][Rank(pc') > Rank(pc) /\ stdout = <<>> /\ exitCode = -1]_vars

C10_Witness == Done /\ exitCode = 0 /\ stdout # <<>> /\ stdout[1].decision = "ask"

(***************************************************************************)
(* hooks/lib: readStdin.  Bun.stdin.text() settles once the whole input    *)
(* (Chunks pieces, then end of file) has arrived; the timer rejects the    *)
(* other promise of the race.  Promise.race takes the first settlement and *)
(* ignores the second; the await resumes readStdin once the race settled.  *)
(***************************************************************************)
Chunks == 2       \* pieces in which the text of stdin arrives

\* The UserPromptSubmit payload: { prompt, session_id }.
SkillPayload(text, top, prompt) ==
    [text |-> text, val |-> [top |-> top, prompt |-> prompt]]

SkillNull == [top |-> "null", prompt |-> NoField]

Prompts ==
    { <<"t", "e", "s", "t">>,
      <<"/", "t", "e", "s", "t">>,
      <<" ", "T", "e", "s", "t", " ", "c", "h", "e", "c", "k">>,
      <<"r", "e", "t", "e", "s", "t">>,
      <<"c", "h", "e", "c", "k", " ", "x", ".", "t", "s">>,
      <<"g", "e", "t">> }

SkillPayloads ==
    {SkillPayload(t, "null", NoField) : t \in {"none", "empty", "garbage"}}
      \cup {SkillPayload("json", k, NoField) : k \in {"null", "number", "array"}}
      \cup {SkillPayload("json", "object", f) :
              f \in {NoField, OtherField("null"), OtherField("array"), StrField(<<>>)}
                      \cup {StrField(p) : p \in Prompts}}

\* What the hook's main does with the result of readStdin.

Returned(v) ==
    /\ IF hook = "security-validator"
       THEN raw' = v /\ input' = input
       ELSE input' = v /\ raw' = raw
    /\ pc' = CASE hook = "security-validator" -> "validateInput"
               [] hook = "skill-eval" -> "checkPrompt"
               [] OTHER -> "checkSession"

\* readStdin up to its await: the read is started and the timer armed.  The
\* text promise of the race is settled when the last piece is in.
ReadStdin_Call ==
    /\ pc = "readStdin"
    /\ pc' = "race"
    /\ timer' = [st |-> "armed", seen |-> 0]
    /\ race' = IF received # Chunks THEN "pending"
               ELSE IF stdin.text = "fails" THEN "rejected" ELSE "fulfilled"
    /\ UNCHANGED <<hook, stdin, input, stdout, exitCode, logs, validatorVars,
                   received, scorerVars, stopVars>>

\* A piece that arrives after the race was settled sets the race again.
StdinData_LateWins ==
    /\ pc # "done"
    /\ stdin.text # "none"
    /\ received < Chunks
    /\ received' = received + 1
    /\ race' = IF pc = "readStdin" THEN race
               ELSE IF received' = Chunks THEN "fulfilled" ELSE race
    /\ UNCHANGED <<hook, stdin, pc, input, stdout, exitCode, logs, validatorVars,
                   timer, scorerVars, stopVars>>

\* A piece of stdin arrives; the last one settles Bun.stdin.text(), which
\* rejects when the read of the stream fails.
StdinData ==
    /\ pc # "done"
    /\ stdin.text # "none"
    /\ received < Chunks
    /\ received' = received + 1
    /\ race' = IF pc # "readStdin" /\ received' = Chunks /\ race = "pending"
               THEN IF stdin.text = "fails" THEN "rejected" ELSE "fulfilled"
               ELSE race
    /\ UNCHANGED <<hook, stdin, pc, input, stdout, exitCode, logs, validatorVars,
                   timer, scorerVars, stopVars>>

\* setTimeout's callback: reject(new Error('timeout')).  timer.seen keeps
\* how much of the input was there when it ran.
TimerFires ==
    /\ pc # "done"
    /\ timer.st = "armed"
    /\ timer' = [st |-> "fired", seen |-> received]
    /\ race' = IF race = "pending" THEN "rejected" ELSE race
    /\ UNCHANGED <<hook, stdin, pc, input, stdout, exitCode, logs, validatorVars,
                   received, scorerVars, stopVars>>

\* The readStdin that lib/paths.ts keeps as the superseded version: the
\* await resumes and nothing clears the timer.
ReadStdin_Resume_NoClear ==
    /\ pc = "race"
    /\ race # "pending"
    /\ timer' = timer
    /\ Returned(IF race = "fulfilled" /\ stdin.text = "json"
                THEN stdin.val
                ELSE IF hook = "security-validator" THEN NullValue ELSE SkillNull)
    /\ UNCHANGED <<hook, stdin, stdout, exitCode, logs, ruleFile, patterns,
                   received, race, scorerVars, stopVars>>

\* The await resumes: clearTimeout, then the text is parsed (null when it
\* is blank or no JSON) or, after a rejection, the catch returns null.
ReadStdin_Resume ==
    /\ pc = "race"
    /\ race # "pending"
    /\ timer' = IF timer.st = "armed" THEN [timer EXCEPT !.st = "cleared"] ELSE timer
    /\ Returned(IF race = "fulfilled" /\ stdin.text = "json"
                THEN stdin.val
                ELSE IF hook = "security-validator" THEN NullValue ELSE SkillNull)
    /\ UNCHANGED <<hook, stdin, stdout, exitCode, logs, ruleFile, patterns,
                   received, race, scorerVars, stopVars>>

\* skill-eval main: if (!input?.prompt) process.exit(0)
TruthyValue(f) == Truthy(f) \/ f.k \in {"array", "object"}

SE_CheckPrompt ==
    /\ pc = "checkPrompt"
    /\ IF input.top = "object" /\ TruthyValue(input.prompt)
       THEN Goto("loadRules")
       ELSE /\ pc' = "done"
            /\ exitCode' = 0
            /\ stdout' = stdout
    /\ UNCHANGED <<hook, stdin, input, logs, validatorVars, stdinVars, scorerVars,
                   stopVars>>

StdinInit ==
    /\ \/ /\ hook = "security-validator"
          /\ stdin \in EnvelopePayloads \cup {NonObjectPayload("fails", "null")}
          /\ input = NullValue
       \/ /\ hook = "skill-eval"
          /\ stdin \in SkillPayloads \cup {SkillPayload("fails", "null", NoField)}
          /\ input = SkillNull
    /\ pc = "readStdin"
    /\ stdout = <<>> /\ exitCode = -1 /\ logs = <<>>
    /\ ValidatorIdle /\ StdinIdle /\ ScorerIdle /\ StopIdle

StdinNext ==
    \/ ReadStdin_Call
    \/ StdinData
    \/ TimerFires
    \/ ReadStdin_Resume
    \/ ValidateInput
    \/ SE_CheckPrompt

StdinSpec == StdinInit /\ [][StdinNext]_vars

\* The timer ran before the whole input had arrived.
TimedOut == timer.st = "fired" /\ timer.seen < Chunks

\* C11: when the timer fires before the whole input has arrived, readStdin
\* returns null, and input that arrives later does not change that result;
\* the security validator then exits with status 2 and no decision on
\* stdout, the activation scorer with status 0 and nothing on stdout.
C11_TimeoutReturnsNull ==
    (TimedOut /\ pc \notin {"readStdin", "race"}) =>
        /\ hook = "security-validator" => raw = NullValue
        /\ hook = "skill-eval" => input = SkillNull
        /\ (hook = "security-validator" /\ pc # "validateInput") =>
               Done /\ exitCode = 2 /\ stdout = <<>>
        /\ (hook = "skill-eval" /\ pc # "checkPrompt") =>
               Done /\ exitCode = 0 /\ stdout = <<>>

\* A request the validator would have accepted arrives in full after the
\* timer fired; the process has exited with status 2.
C11_Witness ==
    /\ hook = "security-validator"
    /\ TimedOut /\ received = Chunks
    /\ stdin.text = "json" /\ validateInput(stdin.val)
    /\ Done /\ exitCode = 2

(***************************************************************************)
(* hooks/skill-eval.hook.ts: strings and numbers.  "T" is the one upper    *)
(* case letter of the generated texts.  A number is a ratio n/d of         *)
(* non-negative integers, exact where a double rounds; 0/0 is NaN, and     *)
(* every comparison with NaN is false.                                     *)
(***************************************************************************)
None == [has |-> FALSE, v |-> 0]
Some(n) == [has |-> TRUE, v |-> n]

toLowerCase(s) == [i \in 1..Len(s) |-> IF s[i] = "T" THEN "t" ELSE s[i]]

trim(s) ==
    LET ink == {i \in 1..Len(s) : s[i] # " "}
    IN  IF ink = {} THEN <<>>
        ELSE SubSeq(s, CHOOSE i \in ink : \A j \in ink : i <= j,
                       CHOOSE i \in ink : \A j \in ink : i >= j)

\* new RegExp(pat, 'i').test(text) inside try/catch: false when pat does
\* not compile.
RegExpTestI(pat, text) ==
    Compiles(pat) /\ RegexTest(Compile(toLowerCase(pat)).regex, toLowerCase(text))

Ratio(n, d) == [n |-> n, d |-> d]
IsNaN(x) == x.d = 0
Less(x, y) == ~IsNaN(x) /\ ~IsNaN(y) /\ x.n * y.d < y.n * x.d

\* Number.prototype.toFixed(0): the nearest integer, the larger of two.
toFixed0(x) ==
    IF IsNaN(x) THEN [nan |-> TRUE, n |-> 0]
    ELSE [nan |-> FALSE, n |-> (2 * x.n + x.d) \div (2 * x.d)]

(***************************************************************************)
(* The matchers.  Each counts the entries of one trigger list that hit.    *)
(***************************************************************************)
Count(list, Hit(_)) == Cardinality({i \in 1..Len(list) : Hit(list[i])})

\* \b at the gap after position i of s
WordBoundary(s, i) ==
    (i >= 1 /\ i <= Len(s) /\ s[i] \in WordChars)
        # (i + 1 <= Len(s) /\ s[i + 1] \in WordChars)

matchKeywords(prompt, keywords) ==
    LET lower == toLowerCase(prompt)
        Hit(kw) == \E i \in 0..(Len(lower) - Len(kw)) :
                      /\ SubSeq(lower, i + 1, i + Len(kw)) = toLowerCase(kw)
                      /\ WordBoundary(lower, i)
                      /\ WordBoundary(lower, i + Len(kw))
    IN  Count(keywords, Hit)

matchPatterns(prompt, pats) ==
    LET Hit(pat) == RegExpTestI(pat, prompt) IN Count(pats, Hit)

matchDirectories(cwd, directories) ==
    LET Hit(dir) == Includes(cwd, dir) IN Count(directories, Hit)

\* The families whose words the generated prompts can spell.
intentKeywords ==
    [test   |-> {<<"t", "e", "s", "t">>},
     review |-> {<<"c", "h", "e", "c", "k">>}]

matchIntents(prompt, intents) ==
    LET lower == toLowerCase(prompt)
        Hit(intent) == /\ intent \in DOMAIN intentKeywords
                       /\ \E word \in intentKeywords[intent] : Includes(lower, word)
    IN  Count(intents, Hit)

matchFileTypes(prompt, fileTypes) ==
    LET Hit(ft) == Includes(prompt, ft) IN Count(fileTypes, Hit)

(***************************************************************************)
(* scoreRule.  A rule is a record; rule.weights is a function on the       *)
(* dimensions it overrides; priority, threshold and cooldown are optional. *)
(***************************************************************************)
\* dims.reduce((s, d) => s + term(d), 0), the terms given as a sequence
RECURSIVE Sum(_, _)
Sum(terms, i) == IF i > Len(terms) THEN 0 ELSE terms[i] + Sum(terms, i + 1)

SumOf(dims, i, Term(_)) == Sum([k \in 1..Len(dims) |-> Term(dims[k])], i)

NoScore == [hit |-> FALSE, normalizedScore |-> Ratio(0, 1), finalScore |-> Ratio(0, 1)]

\* The dimensions pushed by scoreRule: those with a non-empty trigger list.
dimsOf(prompt, rule, defaultWeights) ==
    LET weight(d) == IF d \in DOMAIN rule.weights THEN rule.weights[d]
                     ELSE defaultWeights[d]
        triggers == rule.triggers
        Dim(c, list, w) == [count |-> c, total |-> Len(list), weight |-> w]
        NonEmpty(d) == d.total > 0
    IN  SelectSeq(
          << Dim(matchKeywords(prompt, triggers.keywords), triggers.keywords,
                 weight("keyword")),
             Dim(matchPatterns(prompt, triggers.patterns), triggers.patterns,
                 weight("pattern")),
             Dim(matchDirectories(Cwd, triggers.directories), triggers.directories,
                 weight("directory")),
             Dim(matchIntents(prompt, triggers.intents), triggers.intents,
                 weight("intent")),
             Dim(matchFileTypes(prompt, triggers.fileTypes), triggers.fileTypes,
                 weight("filePath")) >>,
          NonEmpty)

\* scoreRule without its totalMatches === 0 return.
scoreRule_KeepsZero(prompt, rule, defaultWeights, defaultThreshold) ==
    LET threshold == IF rule.threshold.has THEN rule.threshold ELSE defaultThreshold
        dims == dimsOf(prompt, rule, defaultWeights)
        Raw(d) == d.count * d.weight
        Max(d) == d.total * d.weight
        normalizedScore == Ratio(100 * SumOf(dims, 1, Raw), SumOf(dims, 1, Max))
        priority == IF rule.priority.has THEN rule.priority.v ELSE 5
    IN  IF Len(dims) = 0 THEN NoScore
        ELSE IF threshold.has /\ Less(normalizedScore, Ratio(threshold.v, 1))
        THEN NoScore
        ELSE [hit |-> TRUE, normalizedScore |-> normalizedScore,
              finalScore |-> Ratio(normalizedScore.n * priority,
                                   normalizedScore.d * 10)]

scoreRule(prompt, rule, defaultWeights, defaultThreshold) ==
    LET threshold == IF rule.threshold.has THEN rule.threshold ELSE defaultThreshold
        dims == dimsOf(prompt, rule, defaultWeights)
        Matched(d) == d.count
        Raw(d) == d.count * d.weight
        Max(d) == d.total * d.weight
        normalizedScore == Ratio(100 * SumOf(dims, 1, Raw), SumOf(dims, 1, Max))
        priority == IF rule.priority.has THEN rule.priority.v ELSE 5
    IN  IF Len(dims) = 0 THEN NoScore
        ELSE IF SumOf(dims, 1, Matched) = 0 THEN NoScore
        ELSE IF threshold.has /\ Less(normalizedScore, Ratio(threshold.v, 1))
        THEN NoScore
        ELSE [hit |-> TRUE, normalizedScore |-> normalizedScore,
              finalScore |-> Ratio(normalizedScore.n * priority,
                                   normalizedScore.d * 10)]

\* isExcluded without the trim of the prompt.
isExcluded_Untrimmed(prompt, exclusions) ==
    LET lowered == toLowerCase(prompt)
    IN  \/ \E i \in 1..Len(exclusions.prefixes) :
              StartsWith(lowered, toLowerCase(exclusions.prefixes[i]))
        \/ \E i \in 1..Len(exclusions.patterns) :
              RegExpTestI(exclusions.patterns[i], lowered)

isExcluded(prompt, exclusions) ==
    LET trimmed == toLowerCase(trim(prompt))
    IN  \/ \E i \in 1..Len(exclusions.prefixes) :
              StartsWith(trimmed, toLowerCase(exclusions.prefixes[i]))
        \/ \E i \in 1..Len(exclusions.patterns) :
              RegExpTestI(exclusions.patterns[i], trimmed)

\* The skills that have a SKILL.md under the framework directory: A's has
\* text, C's exists and cannot be read, D's is empty; B has none.
SkillDocs ==
    [s \in {"A", "C", "D"} |->
        [readable |-> s # "C",
         text |-> IF s = "A" THEN <<"#", " ", "A">> ELSE <<>>]]

\* The text of the file, or null.
loadSkillContext(skillName) ==
    IF skillName \notin DOMAIN SkillDocs THEN [has |-> FALSE, v |-> <<>>]
    ELSE IF ~SkillDocs[skillName].readable THEN [has |-> FALSE, v |-> <<>>]
    ELSE [has |-> TRUE, v |-> SkillDocs[skillName].text]

(***************************************************************************)
(* Cooldown tracking.  cooldownMap is a set of [skill, at] entries, at     *)
(* most one per skill; times are Date.now() values in milliseconds.        *)
(***************************************************************************)
TickMs == 1000 \div 2

\* isOnCooldown with <= for <.
isOnCooldown_Inclusive(skill, cooldownSeconds) ==
    \E e \in cooldownMap :
        /\ e.skill = skill
        /\ e.at # 0
        /\ (now - e.at) <= cooldownSeconds * 1000

isOnCooldown(skill, cooldownSeconds) ==
    \E e \in cooldownMap :
        /\ e.skill = skill
        /\ e.at # 0
        /\ (now - e.at) < cooldownSeconds * 1000

recordFire(map, skill) ==
    {e \in map : e.skill # skill} \cup {[skill |-> skill, at |-> now]}

(***************************************************************************)
(* matches.sort((a, b) => b.finalScore - a.finalScore): the stable merge   *)
(* sort of the runtime, bottom up; the right element goes first only when  *)
(* the comparator is negative, that is when its final score is greater.    *)
(* A NaN difference is never negative.                                     *)
(***************************************************************************)
RECURSIVE Merge_RightOnTie(_, _)
Merge_RightOnTie(left, right) ==
    IF right = <<>> THEN left
    ELSE IF left = <<>> THEN right
    ELSE IF ~Less(right[1].finalScore, left[1].finalScore)
         THEN <<right[1]>> \o Merge_RightOnTie(left, Tail(right))
         ELSE <<left[1]>> \o Merge_RightOnTie(Tail(left), right)

RECURSIVE Merge(_, _)
Merge(left, right) ==
    IF right = <<>> THEN left
    ELSE IF left = <<>> THEN right
    ELSE IF Less(left[1].finalScore, right[1].finalScore)
         THEN <<right[1]>> \o Merge(left, Tail(right))
         ELSE <<left[1]>> \o Merge(Tail(left), right)

Least(a, b) == IF a < b THEN a ELSE b

RECURSIVE MergeRuns(_, _, _)
MergeRuns(s, width, i) ==
    IF i >= Len(s) THEN <<>>
    ELSE Merge(SubSeq(s, i + 1, Least(i + width, Len(s))),
               IF i + width >= Len(s) THEN <<>>
               ELSE SubSeq(s, i + width + 1, Least(i + 2 * width, Len(s))))
           \o MergeRuns(s, width, i + 2 * width)

RECURSIVE SortFrom(_, _)
SortFrom(s, width) ==
    IF width >= Len(s) THEN s ELSE SortFrom(MergeRuns(s, width, 0), 2 * width)

sort(s) == SortFrom(s, 1)

\* matches.slice(0, maxSuggestions); slice(0, undefined) is the whole array
slice(s, maxSuggestions) ==
    IF ~maxSuggestions.has THEN s ELSE SubSeq(s, 1, Least(maxSuggestions.v, Len(s)))

(***************************************************************************)
(* skills/skill-rules.json and the generated rule sets.                    *)
(***************************************************************************)
DimNames == {"keyword", "pattern", "directory", "intent", "filePath"}

Triggers(kw, pat, dir, int, ft) ==
    [keywords |-> kw, patterns |-> pat, directories |-> dir, intents |-> int,
     fileTypes |-> ft]

Rule(skill, type, enforcement, priority, triggers, weights, threshold, cooldown) ==
    [skill |-> skill, type |-> type, enforcement |-> enforcement,
     priority |-> priority, triggers |-> triggers, weights |-> weights,
     threshold |-> threshold, cooldown |-> cooldown]

NoWeights == [d \in {} |-> 0]
KeywordWeight(w) == [d \in {"keyword"} |-> w]

kwTest == <<"t", "e", "s", "t">>
kwGet == <<"g", "e", "t">>

TriggerPool ==
    { Triggers(<<>>, <<>>, <<>>, <<>>, <<>>),
      Triggers(<<kwTest>>, <<>>, <<>>, <<>>, <<>>),
      Triggers(<<kwTest, kwGet>>, <<>>, <<>>, <<>>, <<>>),
      Triggers(<<>>, << <<"^", "t", ".", "s", "t">>, <<"(">> >>, <<>>, <<>>, <<>>),
      Triggers(<<kwTest>>, <<>>, << <<"/", "w">> >>, <<"review", "deploy">>,
               << <<".", "t", "s">> >>),
      Triggers(<<kwGet>>, << <<"x", "x">> >>, <<>>, <<>>, <<>>) }

RulesFileOf(lacks, weights, threshold, rules, prefixes, pats, maxSuggestions) ==
    [exists |-> TRUE, valid |-> TRUE, lacks |-> lacks,
     defaults |-> [weights |-> weights, threshold |-> threshold],
     rules |-> rules,
     exclusions |-> [prefixes |-> prefixes, patterns |-> pats],
     settings |-> [maxSuggestions |-> maxSuggestions, showScores |-> TRUE]]

AllWeights(w) == [d \in DimNames |-> w]

AbsentRules ==
    [RulesFileOf({}, AllWeights(1), Some(30), <<>>, <<>>, <<>>, Some(3))
        EXCEPT !.exists = FALSE, !.valid = FALSE]

InvalidRules ==
    [RulesFileOf({}, AllWeights(1), Some(30), <<>>, <<>>, <<>>, Some(3))
        EXCEPT !.valid = FALSE]

\* One rule that the prompt "test" activates.
PlainRule ==
    Rule("A", "proactive", "suggest", None, Triggers(<<kwTest>>, <<>>, <<>>, <<>>, <<>>),
         NoWeights, None, None)

PrefixPool == << <<"/">>, <<"T", "e">>, <<" ">> >>
ExclusionPool == << <<"(">>, <<"^", "c">>, <<"k", " ", "x">> >>

\* Files exercising the loading: absent, not JSON, JSON without one of its
\* fields, complete.
LoadRulesFiles ==
    {AbsentRules, InvalidRules}
      \cup {RulesFileOf(l, AllWeights(1), th, <<PlainRule>>, << <<"/">> >>, <<>>, m) :
              l \in {{}, {"defaults"}, {"rules"}, {"exclusions"}, {"settings"}},
              th \in {None, Some(30)}, m \in {None, Some(3)}}

ExclusionRulesFiles ==
    {RulesFileOf({}, AllWeights(1), Some(30), <<PlainRule>>, p, x, Some(3)) :
        p \in Runs(PrefixPool), x \in Runs(ExclusionPool)}

\* One rule of every shape and type, against defaults with weights 1 or 0.
ScoreRulesFiles ==
    {RulesFileOf({}, AllWeights(w), Some(30),
                 <<Rule("A", ty, "suggest", pr, tr, rw, th, None)>>,
                 <<>>, <<>>, Some(3)) :
        ty \in {"proactive", "reactive", "guard"},
        w \in {0, 1}, pr \in {None, Some(10)}, tr \in TriggerPool,
        rw \in {NoWeights, KeywordWeight(0), KeywordWeight(3)},
        th \in {None, Some(0), Some(50), Some(100)}}

MaxSkillRules == 3    \* rules of a generated rule set that is ranked

RankPool ==
    { Rule("A", "proactive", "inject", Some(10),
           Triggers(<<kwTest>>, <<>>, <<>>, <<>>, <<>>), NoWeights, None, Some(1)),
      Rule("B", "proactive", "require", Some(10),
           Triggers(<<kwTest, kwGet>>, <<>>, <<>>, <<>>, <<>>), NoWeights, None, None),
      Rule("A", "proactive", "suggest", None,
           Triggers(<<kwTest>>, <<>>, <<>>, <<>>, <<>>), NoWeights, None, None),
      Rule("B", "proactive", "inject", Some(10),
           Triggers(<<kwTest>>, <<>>, <<>>, <<>>, <<>>), KeywordWeight(0), None, None),
      Rule("B", "reactive", "suggest", Some(10),
           Triggers(<<kwTest>>, <<>>, <<>>, <<>>, <<>>), NoWeights, None, None),
      Rule("A", "proactive", "suggest", Some(10),
           Triggers(<<kwGet>>, <<>>, <<>>, <<>>, <<>>), NoWeights, Some(0), None),
      Rule("C", "proactive", "inject", None,
           Triggers(<<kwTest>>, <<>>, <<>>, <<>>, <<>>), NoWeights, None, None),
      Rule("D", "proactive", "inject", Some(10),
           Triggers(<<kwTest>>, <<>>, <<>>, <<>>, <<>>), NoWeights, None, None),
      Rule("C", "proactive", "warn", Some(10),
           Triggers(<<kwTest>>, <<>>, <<>>, <<>>, <<>>), NoWeights, None, None) }

RankRulesFiles ==
    {RulesFileOf({}, AllWeights(1), Some(30), rs, <<>>, <<>>, m) :
        rs \in SeqsUpTo(RankPool, MaxSkillRules),
        m \in {Some(k) : k \in 0..MaxSkillRules}}

(***************************************************************************)
(* skill-eval main, one action per step.  A TypeError thrown on a missing  *)
(* field, or on a prompt that is no string, reaches main().catch, which    *)
(* exits with status 0 as process.exit(0) does.                            *)
(***************************************************************************)
SE_Start ==
    /\ pc = "readStdin"
    /\ input = SkillNull
    /\ stdout = <<>>
    /\ exitCode = -1
    /\ logs = <<>>
    /\ cooldownMap = {}
    /\ idx = 0
    /\ matches = <<>>
    /\ parts = <<>>

SE_Exit ==
    /\ pc' = "done"
    /\ exitCode' = 0
    /\ stdout' = stdout

\* readStdin(100) as one step: null on a timeout, on blank text and on
\* text that is no JSON.
SE_ReadStdin ==
    /\ pc = "readStdin"
    /\ \E timedOut \in BOOLEAN :
          input' = IF timedOut \/ stdin.text # "json" THEN SkillNull ELSE stdin.val
    /\ pc' = "checkPrompt"
    /\ UNCHANGED <<hook, stdin, stdout, exitCode, logs, validatorVars, stdinVars,
                   scorerVars, stopVars>>

SE_LoadRules ==
    /\ pc = "loadRules"
    /\ IF ~rulesFile.exists
       THEN logs' = Append(logs, "no-rules") /\ SE_Exit
       ELSE IF ~rulesFile.valid
       THEN logs' = Append(logs, "parse-failed") /\ SE_Exit
       ELSE logs' = logs /\ Goto("isExcluded")
    /\ UNCHANGED <<hook, stdin, input, validatorVars, stdinVars, scorerVars, stopVars>>

SE_IsExcluded ==
    /\ pc = "isExcluded"
    /\ IF input.prompt.k # "string" \/ "exclusions" \in rulesFile.lacks
       THEN SE_Exit /\ idx' = idx
       ELSE IF isExcluded(input.prompt.s, rulesFile.exclusions)
       THEN SE_Exit /\ idx' = idx
       ELSE Goto("candidates") /\ idx' = 1
    /\ UNCHANGED <<hook, stdin, input, logs, validatorVars, stdinVars, rulesFile,
                   cooldownMap, now, matches, parts, prev, stopVars>>

\* The candidate loop without its test of rule.type.
SE_Candidate_AnyType ==
    /\ pc = "candidates"
    /\ IF "rules" \in rulesFile.lacks
       THEN SE_Exit /\ UNCHANGED <<idx, matches>>
       ELSE IF idx > Len(rulesFile.rules)
       THEN /\ IF Len(matches) = 0 THEN SE_Exit ELSE Goto("sort")
            /\ UNCHANGED <<idx, matches>>
       ELSE LET rule == rulesFile.rules[idx]
                scored == scoreRule(input.prompt.s, rule, rulesFile.defaults.weights,
                                    rulesFile.defaults.threshold)
            IN  IF /\ rule.cooldown.has /\ rule.cooldown.v # 0
                        /\ isOnCooldown(rule.skill, rule.cooldown.v)
                THEN Goto("candidates") /\ idx' = idx + 1 /\ matches' = matches
                ELSE IF "defaults" \in rulesFile.lacks
                THEN SE_Exit /\ UNCHANGED <<idx, matches>>
                ELSE /\ Goto("candidates")
                     /\ idx' = idx + 1
                     /\ matches' =
                          IF scored.hit
                          THEN Append(matches,
                                      [rule |-> idx,
                                       normalizedScore |-> scored.normalizedScore,
                                       finalScore |-> scored.finalScore])
                          ELSE matches
    /\ UNCHANGED <<hook, stdin, input, logs, validatorVars, stdinVars, rulesFile,
                   cooldownMap, now, parts, prev, stopVars>>

\* One iteration of the candidate loop, or its end.
SE_Candidate ==
    /\ pc = "candidates"
    /\ IF "rules" \in rulesFile.lacks
       THEN SE_Exit /\ UNCHANGED <<idx, matches>>
       ELSE IF idx > Len(rulesFile.rules)
       THEN /\ IF Len(matches) = 0 THEN SE_Exit ELSE Goto("sort")
            /\ UNCHANGED <<idx, matches>>
       ELSE LET rule == rulesFile.rules[idx]
                scored == scoreRule(input.prompt.s, rule, rulesFile.defaults.weights,
                                    rulesFile.defaults.threshold)
            IN  IF rule.type # "proactive"
                THEN Goto("candidates") /\ idx' = idx + 1 /\ matches' = matches
                ELSE IF /\ rule.cooldown.has /\ rule.cooldown.v # 0
                        /\ isOnCooldown(rule.skill, rule.cooldown.v)
                THEN Goto("candidates") /\ idx' = idx + 1 /\ matches' = matches
                ELSE IF "defaults" \in rulesFile.lacks
                THEN SE_Exit /\ UNCHANGED <<idx, matches>>
                ELSE /\ Goto("candidates")
                     /\ idx' = idx + 1
                     /\ matches' =
                          IF scored.hit
                          THEN Append(matches,
                                      [rule |-> idx,
                                       normalizedScore |-> scored.normalizedScore,
                                       finalScore |-> scored.finalScore])
                          ELSE matches
    /\ UNCHANGED <<hook, stdin, input, logs, validatorVars, stdinVars, rulesFile,
                   cooldownMap, now, parts, prev, stopVars>>

\* matches.sort(...), then the read of rules.settings for the slice
SE_Sort ==
    /\ pc = "sort"
    /\ matches' = sort(matches)
    /\ IF "settings" \in rulesFile.lacks
       THEN SE_Exit /\ idx' = idx
       ELSE Goto("render") /\ idx' = 1
    /\ UNCHANGED <<hook, stdin, input, logs, validatorVars, stdinVars, rulesFile,
                   cooldownMap, now, parts, prev, stopVars>>

top == slice(matches, rulesFile.settings.maxSuggestions)

\* The switch taken once, on the enforcement and the skill of the first
\* match, and its branch used for every match.
Section_FirstEnforcement(match) ==
    LET rule == rulesFile.rules[match.rule]
        first == rulesFile.rules[top[1].rule]
        ctx == loadSkillContext(first.skill)
        loaded == first.enforcement = "inject" /\ ctx.has /\ ctx.v # <<>>
    IN  [rule |-> match.rule,
         skill |-> rule.skill,
         form |-> CASE loaded -> "auto-loaded"
                    [] first.enforcement = "require" -> "required"
                    [] OTHER -> "suggestion",
         text |-> IF loaded THEN ctx.v ELSE <<>>,
         score |-> IF rulesFile.settings.showScores
                   THEN <<toFixed0(match.normalizedScore)>> ELSE <<>>]

\* The text pushed for a match: its form, the skill, the text of the
\* skill's file where it is embedded, and the score shown.  if (ctx) is
\* false for null and for the empty string.
Section(match) ==
    LET rule == rulesFile.rules[match.rule]
        ctx == loadSkillContext(rule.skill)
        loaded == rule.enforcement = "inject" /\ ctx.has /\ ctx.v # <<>>
    IN  [rule |-> match.rule,
         skill |-> rule.skill,
         form |-> CASE loaded -> "auto-loaded"
                    [] rule.enforcement = "require" -> "required"
                    [] OTHER -> "suggestion",
         text |-> IF loaded THEN ctx.v ELSE <<>>,
         score |-> IF rulesFile.settings.showScores
                   THEN <<toFixed0(match.normalizedScore)>> ELSE <<>>]

\* recordFire for every candidate scored, emitted or not.
SE_Render_FiresAll ==
    /\ pc = "render"
    /\ IF idx > Len(top)
       THEN Goto("print") /\ UNCHANGED <<idx, parts, cooldownMap>>
       ELSE /\ cooldownMap' =
                 LET fired == {rulesFile.rules[matches[k].rule].skill :
                                  k \in 1..Len(matches)}
                 IN  {e \in cooldownMap : e.skill \notin fired}
                       \cup {[skill |-> s, at |-> now] : s \in fired}
            /\ parts' = Append(parts, Section(top[idx]))
            /\ idx' = idx + 1
            /\ Goto("render")
    /\ UNCHANGED <<hook, stdin, input, logs, validatorVars, stdinVars, rulesFile,
                   now, matches, prev, stopVars>>

\* One iteration of the loop over top, or its end.
SE_Render ==
    /\ pc = "render"
    /\ IF idx > Len(top)
       THEN Goto("print") /\ UNCHANGED <<idx, parts, cooldownMap>>
       ELSE /\ cooldownMap' = recordFire(cooldownMap, rulesFile.rules[top[idx].rule].skill)
            /\ parts' = Append(parts, Section(top[idx]))
            /\ idx' = idx + 1
            /\ Goto("render")
    /\ UNCHANGED <<hook, stdin, input, logs, validatorVars, stdinVars, rulesFile,
                   now, matches, prev, stopVars>>

SE_Print ==
    /\ pc = "print"
    /\ stdout' = IF Len(parts) > 0
                 THEN Append(stdout, [block |-> "system-reminder", parts |-> parts])
                 ELSE stdout
    /\ exitCode' = 0
    /\ pc' = "done"
    /\ UNCHANGED <<hook, stdin, input, logs, validatorVars, stdinVars, scorerVars,
                   stopVars>>

\* What a finished pass leaves behind for the next one to be compared with.
PassRecord ==
    [at |-> now, input |-> input, matches |-> matches, parts |-> parts,
     stdout |-> stdout, exitCode |-> exitCode]

\* The host runs the hook again on the same prompt and files: a new process
\* at a later time.
SE_Respawn ==
    /\ pc = "done"
    /\ Len(prev) = 0
    /\ prev' = Append(prev, PassRecord)
    /\ now' = now + TickMs
    /\ pc' = "readStdin"
    /\ input' = SkillNull
    /\ stdout' = <<>>
    /\ exitCode' = -1
    /\ logs' = <<>>
    /\ cooldownMap' = {}
    /\ idx' = 0
    /\ matches' = <<>>
    /\ parts' = <<>>
    /\ UNCHANGED <<hook, stdin, validatorVars, stdinVars, rulesFile, stopVars>>

ScorerInit ==
    /\ hook = "skill-eval"
    /\ \/ stdin \in SkillPayloads /\ rulesFile \in LoadRulesFiles
       \/ /\ stdin \in {SkillPayload("json", "object", StrField(p)) : p \in Prompts}
          /\ rulesFile \in ExclusionRulesFiles \cup ScoreRulesFiles
       \/ /\ stdin = SkillPayload("json", "object", StrField(kwTest))
          /\ rulesFile \in RankRulesFiles
    /\ SE_Start
    /\ now = TickMs
    /\ prev = <<>>
    /\ ValidatorIdle /\ StdinIdle /\ StopIdle

ScorerNext ==
    \/ SE_ReadStdin
    \/ SE_CheckPrompt
    \/ SE_LoadRules
    \/ SE_IsExcluded
    \/ SE_Candidate
    \/ SE_Sort
    \/ SE_Render
    \/ SE_Print
    \/ SE_Respawn

ScorerSpec == ScorerInit /\ [][ScorerNext]_vars

(***************************************************************************)
(* Properties of the activation scorer.                                    *)
(***************************************************************************)
\* The process received a prompt: a non-empty string.
PromptIn ==
    input.top = "object" /\ input.prompt.k = "string" /\ input.prompt.s # <<>>

\* The rule file is there, is JSON and has every field main reads.
RulesComplete ==
    /\ rulesFile.exists /\ rulesFile.valid /\ rulesFile.lacks = {}
    /\ rulesFile.defaults.threshold.has
    /\ rulesFile.settings.maxSuggestions.has

OneReminder ==
    /\ Len(stdout) = 1
    /\ stdout[1].block = "system-reminder"
    /\ Len(stdout[1].parts) >= 1

\* C12: the activation scorer always exits with status 0; with missing,
\* empty or malformed input, an empty prompt, an absent rule file, a rule
\* file that is no JSON or lacks expected fields, or an exception, stdout
\* is empty; otherwise stdout is empty or exactly one system-reminder block.
C12_SilentOnFailure ==
    Done =>
        /\ exitCode = 0
        /\ (~PromptIn \/ ~RulesComplete) => stdout = <<>>
        /\ stdout = <<>> \/ OneReminder

\* The trimmed prompt starts with an exclusion prefix, letter case aside,
\* or an exclusion pattern matches it.
ExcludedPrompt(prompt) ==
    LET text == toLowerCase(trim(prompt))
        ex == rulesFile.exclusions
    IN  \/ \E i \in 1..Len(ex.prefixes) : StartsWith(text, toLowerCase(ex.prefixes[i]))
        \/ \E i \in 1..Len(ex.patterns) : RegExpTestI(ex.patterns[i], text)

\* C13: when the trimmed prompt starts with an exclusion prefix (compared
\* case-insensitively) or matches an exclusion pattern, the scorer exits
\* with status 0 and empty output whatever the rules are; the candidate
\* loop is never entered and no cooldown timestamp is written.
C13_ExcludedPromptIsSilent ==
    (PromptIn /\ RulesComplete /\ ExcludedPrompt(input.prompt.s)
              /\ pc \notin {"checkPrompt", "loadRules", "isExcluded"}) =>
        /\ Done /\ exitCode = 0 /\ stdout = <<>>
        /\ idx = 0 /\ matches = <<>> /\ parts = <<>>
        /\ cooldownMap = {}

\* A prompt with a leading blank and an upper case letter, excluded by a
\* prefix only once it is trimmed and lowered, against a rule it activates.
C13_Witness ==
    /\ Done /\ PromptIn /\ RulesComplete
    /\ input.prompt.s = <<" ", "T", "e", "s", "t", " ", "c", "h", "e", "c", "k">>
    /\ rulesFile.exclusions.prefixes = << <<"T", "e">> >>
    /\ rulesFile.exclusions.patterns = <<>>
    /\ rulesFile.rules = <<PlainRule>>

\* The rules whose sections were pushed, in the order of the output.
Emitted == [k \in 1..Len(parts) |-> parts[k].rule]

EmittedSet == {parts[k].rule : k \in 1..Len(parts)}

\* No trigger dimension of the rule has a match.
ZeroMatches(prompt, rule) ==
    /\ matchKeywords(prompt, rule.triggers.keywords) = 0
    /\ matchPatterns(prompt, rule.triggers.patterns) = 0
    /\ matchDirectories(Cwd, rule.triggers.directories) = 0
    /\ matchIntents(prompt, rule.triggers.intents) = 0
    /\ matchFileTypes(prompt, rule.triggers.fileTypes) = 0

\* C14: a rule none of whose trigger dimensions has a match (its lists may
\* all be empty) is never a candidate, never appears in the output, and no
\* cooldown timestamp is written on its account: its skill gets one only
\* when another rule of that skill is emitted.
C14_ZeroMatchNeverEmitted ==
    (PromptIn /\ RulesComplete) =>
        \A i \in 1..Len(rulesFile.rules) :
            ZeroMatches(input.prompt.s, rulesFile.rules[i]) =>
                /\ \A k \in 1..Len(matches) : matches[k].rule # i
                /\ i \notin EmittedSet
                /\ \A b \in 1..Len(stdout) : \A k \in 1..Len(stdout[b].parts) :
                       stdout[b].parts[k].rule # i
                /\ (\E e \in cooldownMap : e.skill = rulesFile.rules[i].skill) =>
                       \E j \in EmittedSet : /\ j # i
                                             /\ rulesFile.rules[j].skill =
                                                  rulesFile.rules[i].skill

\* A proactive rule with threshold 0 and no match sits beside an emitted one.
C14_Witness ==
    /\ Done /\ PromptIn /\ RulesComplete /\ stdout # <<>>
    /\ \E i \in 1..Len(rulesFile.rules) :
          /\ ZeroMatches(input.prompt.s, rulesFile.rules[i])
          /\ rulesFile.rules[i].type = "proactive"
          /\ rulesFile.rules[i].threshold = Some(0)

\* The sums of the normalized score, over the trigger dimensions (an empty
\* dimension adds nothing to either).
WeightOf(rule, d) ==
    IF d \in DOMAIN rule.weights THEN rule.weights[d]
    ELSE rulesFile.defaults.weights[d]

MatchedSum(prompt, rule) ==
    matchKeywords(prompt, rule.triggers.keywords) * WeightOf(rule, "keyword")
      + matchPatterns(prompt, rule.triggers.patterns) * WeightOf(rule, "pattern")
      + matchDirectories(Cwd, rule.triggers.directories) * WeightOf(rule, "directory")
      + matchIntents(prompt, rule.triggers.intents) * WeightOf(rule, "intent")
      + matchFileTypes(prompt, rule.triggers.fileTypes) * WeightOf(rule, "filePath")

DeclaredSum(rule) ==
    Len(rule.triggers.keywords) * WeightOf(rule, "keyword")
      + Len(rule.triggers.patterns) * WeightOf(rule, "pattern")
      + Len(rule.triggers.directories) * WeightOf(rule, "directory")
      + Len(rule.triggers.intents) * WeightOf(rule, "intent")
      + Len(rule.triggers.fileTypes) * WeightOf(rule, "filePath")

EffectiveThreshold(rule) ==
    IF rule.threshold.has THEN rule.threshold.v ELSE rulesFile.defaults.threshold.v

\* 100 * matched / declared is a number in [0, 100] and >= the threshold.
ScoreQualifies(prompt, rule) ==
    /\ DeclaredSum(rule) > 0
    /\ MatchedSum(prompt, rule) <= DeclaredSum(rule)
    /\ 100 * MatchedSum(prompt, rule) >= EffectiveThreshold(rule) * DeclaredSum(rule)

\* C15: a rule is emitted only if its normalized score, 100 * sum(matched *
\* weight) / sum(declared * weight), is a well-defined number in [0, 100]
\* that is >= its effective threshold (its own when present, 0 included,
\* the global default otherwise), for all non-negative weights, 0 included.
C15_EmittedScoreQualifies ==
    (PromptIn /\ RulesComplete) =>
        \A i \in EmittedSet : ScoreQualifies(input.prompt.s, rulesFile.rules[i])

\* The final score of the claim: normalized score * priority / 10, the
\* priority defaulting to 5.
PriorityOf(rule) == IF rule.priority.has THEN rule.priority.v ELSE 5

FinalScore(prompt, rule) ==
    Ratio(100 * MatchedSum(prompt, rule) * PriorityOf(rule), DeclaredSum(rule) * 10)

\* x <= y for two numbers; false when either is not a number.
LessEq(x, y) == ~IsNaN(x) /\ ~IsNaN(y) /\ x.n * y.d <= y.n * x.d

\* The proactive rules with a match and a qualifying normalized score.
Qualifying ==
    {i \in 1..Len(rulesFile.rules) :
        /\ rulesFile.rules[i].type = "proactive"
        /\ ~ZeroMatches(input.prompt.s, rulesFile.rules[i])
        /\ ScoreQualifies(input.prompt.s, rulesFile.rules[i])}

Rendered == pc = "print" \/ (Done /\ stdout # <<>>)

Min(a, b) == IF a <= b THEN a ELSE b

\* C16: the emitted sections are the first maxSuggestions candidates in
\* non-increasing order of final score: never more than maxSuggestions,
\* every qualifying candidate left out scores no more than every emitted
\* one, and the sections are in ranked order.
C16_TopRankedEmitted ==
    (PromptIn /\ RulesComplete /\ Rendered) =>
        LET fs(i) == FinalScore(input.prompt.s, rulesFile.rules[i])
        IN  /\ Len(parts) <= rulesFile.settings.maxSuggestions.v
            /\ Len(parts) = Min(rulesFile.settings.maxSuggestions.v,
                                Cardinality(Qualifying))
            /\ \A q \in Qualifying \ EmittedSet : \A e \in EmittedSet :
                   LessEq(fs(q), fs(e))
            /\ \A k \in 1..(Len(parts) - 1) :
                   LessEq(fs(parts[k + 1].rule), fs(parts[k].rule))
            /\ \A b \in 1..Len(stdout) : stdout[b].parts = parts

\* C18: two passes over the same prompt, rule set, defaults and working
\* directory, each from an empty cooldown table, emit the same rules in the
\* same order with the same normalized and final scores; rules with equal
\* final score are emitted in their declaration order.
C18_SamePassSameRanking ==
    /\ (Done /\ Len(prev) = 1 /\ input = prev[1].input) =>
           /\ matches = prev[1].matches
           /\ parts = prev[1].parts
           /\ stdout = prev[1].stdout
           /\ exitCode = prev[1].exitCode
    /\ (PromptIn /\ RulesComplete /\ Rendered) =>
           LET fs(i) == FinalScore(input.prompt.s, rulesFile.rules[i])
           IN  \A k, l \in 1..Len(parts) :
                   (k < l /\ LessEq(fs(parts[k].rule), fs(parts[l].rule))
                          /\ LessEq(fs(parts[l].rule), fs(parts[k].rule)))
                       => parts[k].rule < parts[l].rule

\* The second pass has ended and emitted two rules of equal final score
\* (normalized 50 at priority 10, normalized 100 at the default priority).
C18_Witness ==
    /\ Done /\ Len(prev) = 1 /\ PromptIn /\ RulesComplete /\ stdout # <<>>
    /\ \E k \in 1..(Len(parts) - 1) :
          LET a == rulesFile.rules[parts[k].rule]
              b == rulesFile.rules[parts[k + 1].rule]
          IN  /\ PriorityOf(a) # PriorityOf(b)
              /\ LessEq(FinalScore(input.prompt.s, a), FinalScore(input.prompt.s, b))
              /\ LessEq(FinalScore(input.prompt.s, b), FinalScore(input.prompt.s, a))

(***************************************************************************)
(* The scorer kept warm: the module scope, and with it cooldownMap, lives  *)
(* on while main's steps run again on the next prompt some time later.     *)
(***************************************************************************)
MaxPasses == 3    \* scoring passes of one warm process
MaxDelay == 3     \* clock steps between two passes, at most

\* Rules that the prompt "test" activates, of two skills, with and without
\* a cooldown; a guard rule, a rule without a match, a rule below its
\* threshold.
WarmPool ==
    {Rule(s, "proactive", "suggest", None, Triggers(<<kwTest>>, <<>>, <<>>, <<>>, <<>>),
          NoWeights, None, c) :
        s \in {"A", "B"}, c \in {None, Some(0), Some(1), Some(2)}}
      \cup {Rule("B", "guard", "suggest", None,
                 Triggers(<<kwTest>>, <<>>, <<>>, <<>>, <<>>), NoWeights, None, None),
            Rule("B", "proactive", "suggest", None,
                 Triggers(<<kwGet>>, <<>>, <<>>, <<>>, <<>>), NoWeights, None, None),
            Rule("B", "proactive", "suggest", None,
                 Triggers(<<kwTest, kwGet>>, <<>>, <<>>, <<>>, <<>>), NoWeights,
                 Some(100), None)}

WarmRulesFiles ==
    {RulesFileOf({}, AllWeights(1), Some(30), rs, <<>>, <<>>, Some(m)) :
        rs \in SeqsUpTo(WarmPool, 2) \ {<<>>}, m \in 1..2}

\* The next pass begins, d clock steps after the last one, in the same
\* process: cooldownMap is what the earlier passes left.
Reenter ==
    /\ pc = "done"
    /\ Len(prev) < MaxPasses - 1
    /\ prev' = Append(prev, PassRecord)
    /\ \E d \in 0..MaxDelay : now' = now + d * TickMs
    /\ pc' = "readStdin"
    /\ input' = SkillNull
    /\ stdout' = <<>>
    /\ exitCode' = -1
    /\ idx' = 0
    /\ matches' = <<>>
    /\ parts' = <<>>
    /\ UNCHANGED <<hook, stdin, logs, validatorVars, stdinVars, rulesFile, cooldownMap,
                   stopVars>>

WarmInit ==
    /\ hook = "skill-eval"
    /\ stdin = SkillPayload("json", "object", StrField(kwTest))
    /\ rulesFile \in WarmRulesFiles
    /\ SE_Start
    /\ now = TickMs
    /\ prev = <<>>
    /\ ValidatorIdle /\ StdinIdle /\ StopIdle

WarmNext ==
    \/ SE_ReadStdin
    \/ SE_CheckPrompt
    \/ SE_LoadRules
    \/ SE_IsExcluded
    \/ SE_Candidate
    \/ SE_Sort
    \/ SE_Render
    \/ SE_Print
    \/ Reenter

WarmSpec == WarmInit /\ [][WarmNext]_vars

\* The times at which an earlier pass emitted a rule of the skill.
EmissionTimes(skill) ==
    {prev[k].at : k \in {j \in 1..Len(prev) :
                            \E s \in 1..Len(prev[j].parts) : prev[j].parts[s].skill = skill}}

\* The rule has a cooldown of c > 0 seconds and its skill was emitted at a
\* time t with now < t + c seconds.
Suppressed(rule) ==
    /\ rule.cooldown.has
    /\ rule.cooldown.v > 0
    /\ \E t \in EmissionTimes(rule.skill) : now < t + rule.cooldown.v * 1000

CandidatesDone == pc \in {"sort", "render", "print", "done"}

\* C17: in a warm process, once a skill was emitted at time t every rule
\* of that skill with a cooldown of c > 0 seconds is left out of each pass
\* made before t + c seconds, whatever its score; from t + c on it is a
\* candidate again, and a rule with no cooldown, or cooldown 0, is never
\* suppressed.
C17_CooldownWindow ==
    (PromptIn /\ RulesComplete /\ CandidatesDone) =>
        \A i \in 1..Len(rulesFile.rules) :
            (\E k \in 1..Len(matches) : matches[k].rule = i)
                <=> (i \in Qualifying /\ ~Suppressed(rulesFile.rules[i]))

\* The third pass emits a rule that the first pass emitted and the second
\* pass left out as on cooldown.
C17_Witness ==
    /\ Done /\ PromptIn /\ Len(prev) = 2
    /\ \E i \in EmittedSet :
          /\ rulesFile.rules[i].cooldown.has
          /\ \E s \in 1..Len(prev[1].parts) : prev[1].parts[s].rule = i
          /\ \A k \in 1..Len(prev[2].matches) : prev[2].matches[k].rule # i
          /\ prev[2].input = input

(***************************************************************************)
(* The stop orchestrator.  A file of the handlers directory is a record of *)
(* its extension, whether its name starts with a dot, and what importing   *)
(* and calling it does.  A wrapper is one async callback of files.map.     *)
(***************************************************************************)
MaxHandlers == 3    \* entries of the handlers directory

\* What the directory may hold: handlers of every behaviour, README.md, a
\* dot file.
HandlerPool ==
    {[ext |-> ".ts", dot |-> FALSE, kind |-> k] :
        k \in {"completes", "throws", "rejects", "throwsSymbol", "importFails",
               "noDefault", "hangs"}}
      \cup {[ext |-> ".md", dot |-> FALSE, kind |-> "completes"],
            [ext |-> ".ts", dot |-> TRUE, kind |-> "completes"]}

StopPayloads ==
    {[text |-> "json", val |-> [top |-> "object", sid |-> s]] :
        s \in {"string", "empty", "missing"}}
      \cup {[text |-> "garbage", val |-> [top |-> "null", sid |-> "missing"]]}

ST_Exit ==
    /\ pc' = "done"
    /\ exitCode' = 0
    /\ stdout' = stdout

ST_ReadStdin ==
    /\ pc = "readStdin"
    /\ \E timedOut \in BOOLEAN :
          input' = IF timedOut \/ stdin.text # "json" THEN [top |-> "null", sid |-> "missing"]
                   ELSE stdin.val
    /\ Goto("checkSession")
    /\ UNCHANGED <<hook, stdin, logs, validatorVars, stdinVars, scorerVars, stopVars>>

\* readdirSync(...).filter(...)
discovered(dir) ==
    SelectSeq(dir.files, LAMBDA f : f.ext = ".ts" /\ ~f.dot)

\* main from the session check to the await of Promise.allSettled: files.map
\* calls every wrapper, and each runs up to its await import(...).
ST_Dispatch ==
    /\ pc = "checkSession"
    /\ IF input.sid # "string" \/ ~handlerFiles.exists \/ Len(discovered(handlerFiles)) = 0
       THEN ST_Exit /\ wrappers' = wrappers
       ELSE /\ wrappers' = [h \in 1..Len(discovered(handlerFiles)) |->
                              [file |-> discovered(handlerFiles)[h], st |-> "importing",
                               invoked |-> FALSE, completed |-> FALSE]]
            /\ Goto("allSettled")
    /\ UNCHANGED <<hook, stdin, input, logs, validatorVars, stdinVars, scorerVars,
                   handlerFiles>>

\* The wrapper's catch: logError, which throws in its turn when the value
\* thrown has no string form, rejecting the wrapper.
Caught(h, kind) ==
    IF kind = "throwsSymbol"
    THEN /\ wrappers' = [wrappers EXCEPT ![h].st = "rejected", ![h].invoked = TRUE]
         /\ logs' = logs
    ELSE /\ wrappers' = [wrappers EXCEPT ![h].st = "fulfilled",
                                         ![h].invoked = (kind # "importFails")]
         /\ logs' = Append(logs, "handler-failed")

\* The import of wrapper h settles and the wrapper runs to its next await.
ST_ImportSettles(h) ==
    /\ pc = "allSettled"
    /\ wrappers[h].st = "importing"
    /\ LET kind == wrappers[h].file.kind
       IN  CASE kind = "importFails" -> Caught(h, kind)
             [] kind = "noDefault" ->
                    /\ wrappers' = [wrappers EXCEPT ![h].st = "fulfilled"]
                    /\ logs' = logs
             [] kind \in {"throws", "throwsSymbol"} -> Caught(h, kind)
             [] OTHER ->
                    /\ wrappers' = [wrappers EXCEPT ![h].st = "running",
                                                    ![h].invoked = TRUE]
                    /\ logs' = logs
    /\ UNCHANGED <<hook, stdin, pc, input, stdout, exitCode, validatorVars, stdinVars,
                   scorerVars, handlerFiles>>

\* The promise of handler h settles; one that hangs never does.
ST_HandlerSettles(h) ==
    /\ pc = "allSettled"
    /\ wrappers[h].st = "running"
    /\ \/ /\ wrappers[h].file.kind = "completes"
          /\ wrappers' = [wrappers EXCEPT ![h].st = "fulfilled", ![h].completed = TRUE]
          /\ logs' = logs
       \/ /\ wrappers[h].file.kind = "rejects"
          /\ Caught(h, "rejects")
    /\ UNCHANGED <<hook, stdin, pc, input, stdout, exitCode, validatorVars, stdinVars,
                   scorerVars, handlerFiles>>

\* Promise.all in place of Promise.allSettled: the first rejection ends the
\* wait.
ST_AllSettled_FirstRejection ==
    /\ pc = "allSettled"
    /\ \/ \A h \in 1..Len(wrappers) : wrappers[h].st \in {"fulfilled", "rejected"}
       \/ \E h \in 1..Len(wrappers) : wrappers[h].st = "rejected"
    /\ logs' = logs
    /\ ST_Exit
    /\ UNCHANGED <<hook, stdin, input, validatorVars, stdinVars, scorerVars, stopVars>>

\* Promise.allSettled resolves; main counts the rejections and exits.
ST_AllSettled ==
    /\ pc = "allSettled"
    /\ \A h \in 1..Len(wrappers) : wrappers[h].st \in {"fulfilled", "rejected"}
    /\ logs' = IF \E h \in 1..Len(wrappers) : wrappers[h].st = "rejected"
               THEN Append(logs, "handlers-failed") ELSE logs
    /\ ST_Exit
    /\ UNCHANGED <<hook, stdin, input, validatorVars, stdinVars, scorerVars, stopVars>>

StopInit ==
    /\ hook = "stop-orchestrator"
    /\ stdin \in StopPayloads
    /\ handlerFiles \in
          {[exists |-> FALSE, files |-> <<>>]}
            \cup {[exists |-> TRUE, files |-> fs] : fs \in SeqsUpTo(HandlerPool, MaxHandlers)}
    /\ wrappers = <<>>
    /\ pc = "readStdin"
    /\ input = [top |-> "null", sid |-> "missing"]
    /\ stdout = <<>>
    /\ exitCode = -1
    /\ logs = <<>>
    /\ ValidatorIdle /\ StdinIdle /\ ScorerIdle

StopNext ==
    \/ ST_ReadStdin
    \/ ST_Dispatch
    \/ \E h \in 1..Len(wrappers) : ST_ImportSettles(h)
    \/ \E h \in 1..Len(wrappers) : ST_HandlerSettles(h)
    \/ ST_AllSettled

\* The event loop runs main's continuation once the allSettled promise
\* has resolved.
StopSpec == StopInit /\ [][StopNext]_vars /\ WF_vars(ST_AllSettled)

\* The handlers of the directory: .ts files whose name has no leading dot.
IsHandler(f) == f.ext = ".ts" /\ ~f.dot

HandlerCount ==
    Cardinality({i \in 1..Len(handlerFiles.files) : IsHandler(handlerFiles.files[i])})

EverySettled ==
    /\ pc = "allSettled"
    /\ \A h \in 1..Len(wrappers) : wrappers[h].st \in {"fulfilled", "rejected"}

Started == wrappers # <<>>

\* C19: all discovered handlers are started together; a handler that
\* throws, rejects or fails to import keeps no other handler from being
\* invoked and from running to completion; once every handler has settled
\* the orchestrator exits with status 0.
C19_HandlersIsolated ==
    /\ [](Started => Len(wrappers) = HandlerCount)
    /\ []((Done /\ Started) =>
            \A h \in 1..Len(wrappers) :
                /\ wrappers[h].file.kind \notin {"importFails", "noDefault"}
                      => wrappers[h].invoked
                /\ wrappers[h].file.kind = "completes" => wrappers[h].completed)
    /\ [](Done => exitCode = 0)
    /\ [][EverySettled => (pc' = "done" /\ exitCode' = 0)]_vars
    /\ (EverySettled ~> (Done /\ exitCode = 0))

\* The run has ended after a handler that failed to import, one that threw
\* or rejected, and one that ran to completion.
C19_Witness ==
    /\ Done /\ exitCode = 0 /\ Len(wrappers) = 3
    /\ \E a, b, c \in 1..3 :
          /\ wrappers[a].file.kind = "importFails"
          /\ wrappers[b].file.kind \in {"throws", "rejects", "throwsSymbol"}
          /\ wrappers[c].file.kind = "completes" /\ wrappers[c].completed

\* The file is there and can be read, but a line of it is none of the forms
\* the rule file is made of.
Malformed(file) ==
    /\ file.exists /\ file.readable
    /\ \E i \in 1..Len(file.lines) : file.lines[i].t = "other"

\* C20: an absent rule file is an empty rule set, under which a well-formed
\* request is decided with no patterns; a rule file that is present but
\* malformed is a load failure, under which the validator blocks every
\* operation.
C20_AbsentEmptyMalformedBlocks ==
    (Done /\ validateInput(raw)) =>
        /\ ~ruleFile.exists =>
              /\ patterns = NoPatterns("loaded")
              /\ IF raw.tn.name = "Bash" /\ (raw.cmd.k # "string" \/ raw.cmd.s = <<>>)
                 THEN Decided("block") /\ stdout[1].message = "bad-command"
                 ELSE Decided("allow")
        /\ Malformed(ruleFile) => Decided("block")

\* Line i of the file is an item of the commands section whose value does
\* not compile.
InvalidPatternLine(file, i) ==
    /\ file.lines[i].t = "item"
    /\ ~Compiles(file.lines[i].value)
    /\ \E k \in 1..(i - 1) :
          /\ file.lines[k].t = "commands"
          /\ \A j \in (k + 1)..(i - 1) : file.lines[j].t # "paths"

\* The rule file with those lines removed.
WithoutInvalid(file) ==
    LET keep == {i \in 1..Len(file.lines) : ~InvalidPatternLine(file, i)}
        nth(n) == CHOOSE i \in keep : Cardinality({j \in keep : j < i}) = n - 1
    IN  [file EXCEPT !.lines = [n \in 1..Cardinality(keep) |-> file.lines[nth(n)]]]

InvalidCount(file) ==
    Cardinality({i \in 1..Len(file.lines) : InvalidPatternLine(file, i)})

\* C21: a block or confirm pattern that does not compile is dropped at load
\* time with a log line, never counts as a match and does not keep the
\* other patterns from being loaded and evaluated: what is loaded, and so
\* every decision, is what the rule file without that pattern gives.
C21_InvalidPatternDropped ==
    (patterns.st = "loaded" /\ ruleFile.exists) =>
        /\ [patterns EXCEPT !.skipped = 0] = loadPatterns(WithoutInvalid(ruleFile))
        /\ patterns.skipped = InvalidCount(ruleFile)
        /\ Cardinality({i \in 1..Len(logs) : logs[i] = "invalid-regex"})
              = InvalidCount(ruleFile)
        /\ \A i \in 1..Len(stdout) :
              stdout[i].source # <<>> => Compiles(stdout[i].source)

\* A command blocked by the pattern that follows one that did not compile.
C21_Witness ==
    /\ Decided("block") /\ stdout[1].message = "block-pattern"
    /\ InvalidCount(ruleFile) >= 1
    /\ Len(patterns.block) = 1
    /\ \E i \in 1..(Len(ruleFile.lines) - 1) :
          /\ InvalidPatternLine(ruleFile, i)
          /\ ruleFile.lines[i + 1] = ItemLine(stdout[1].source)

(***************************************************************************)
(* expandPath on its own: a caller applies it to a string, and again to    *)
(* the result.  stdin holds the string, stdout the results.                *)
(***************************************************************************)
MaxPathLen == 3    \* characters of a generated string

ExpandInit ==
    /\ hook = "expandPath"
    /\ stdin \in SeqsUpTo({"~", "H", "B", "/", "s"}, MaxPathLen)
    /\ pc = "expandPath"
    /\ stdout = <<>>
    /\ input = NullValue /\ exitCode = -1 /\ logs = <<>>
    /\ ValidatorIdle /\ StdinIdle /\ ScorerIdle /\ StopIdle

ExpandPath ==
    /\ pc = "expandPath"
    /\ stdout' = Append(stdout, expandPath(IF stdout = <<>> THEN stdin
                                           ELSE stdout[Len(stdout)]))
    /\ pc' = IF Len(stdout) = 1 THEN "done" ELSE pc
    /\ UNCHANGED <<hook, stdin, input, exitCode, logs, validatorVars, stdinVars,
                   scorerVars, stopVars>>

ExpandSpec == ExpandInit /\ [][ExpandPath]_vars

\* p begins with ~, $HOME or ${HOME} and "/" or nothing follows the token.
LeadingHomeToken(p) ==
    /\ Len(p) >= 1
    /\ p[1] \in {"~", "H", "B"}
    /\ (Len(p) = 1 \/ p[2] = "/")

\* C22: expandPath replaces only a leading ~, $HOME or ${HOME} that is
\* followed by "/" or the end of the string, by the home directory; every
\* other string (absolute path, token in the middle, ~user, $HOMEDIR) is
\* returned unchanged; and expandPath(expandPath(p)) = expandPath(p).
C22_ExpandPathLeadingOnly ==
    /\ Len(stdout) >= 1 =>
          stdout[1] = IF LeadingHomeToken(stdin) THEN HomeDir \o Tail(stdin) ELSE stdin
    /\ Len(stdout) >= 2 => stdout[2] = stdout[1]

\* $HOME/s was expanded, and expanded again.
C22_Witness ==
    /\ Done /\ stdin = <<"H", "/", "s">>
    /\ stdout = <<HomeDir \o <<"/", "s">>, HomeDir \o <<"/", "s">> >>

\* The canonical form of a path or of a rule-file entry.
Canon(p) == resolve(expandPath(p))

\* C23: every protected-path entry, zeroAccess and confirmWrite alike, is
\* compared in absolute canonical form with the canonical request path: an
\* entry written with ~ or $HOME protects what its absolute spelling
\* protects.  A request at or under such a zeroAccess entry is blocked; a
\* Write or Edit that is not blocked and whose canonical path contains the
\* canonical form of such a confirmWrite entry is answered with ask.
C23_EntriesCanonical ==
    (PathRequest({"Read", "Write", "Edit"}) /\ raw.fp.s # <<>>) =>
        /\ (\E n \in 1..Len(patterns.zeroAccess) :
               AtOrUnder(Canon(raw.fp.s), Canon(patterns.zeroAccess[n])))
             => Decided("block")
        /\ (/\ raw.tn.name \in {"Write", "Edit"}
            /\ ~InZeroAccess(Canon(raw.fp.s), patterns.zeroAccess)
            /\ \E n \in 1..Len(patterns.confirmWrite) :
                  /\ LeadingHomeToken(patterns.confirmWrite[n])
                  /\ Includes(Canon(raw.fp.s), Canon(patterns.confirmWrite[n])))
             => Decided("ask")

\* C24: the zero-access check blocks a file_path only when its canonical
\* form is a zeroAccess entry or lies beneath one; a path that is neither,
\* such as a sibling whose name begins with the entry's name, is not
\* blocked by this check.
C24_ZeroAccessContainment ==
    (/\ Done /\ validateInput(raw) /\ stdout # <<>>
     /\ stdout[1].decision = "block" /\ stdout[1].message = "zero-access")
        => CanonUnderZeroAccess(raw.fp.s)

\* The entry was written for a rule of its skill that this pass or an
\* earlier one emitted, at the time of that pass.
EntryFromEmission(e) ==
    \/ e.at = now /\ \E s \in 1..Len(parts) : parts[s].skill = e.skill
    \/ \E k \in 1..Len(prev) :
          /\ prev[k].at = e.at
          /\ \E s \in 1..Len(prev[k].parts) : prev[k].parts[s].skill = e.skill

\* A step that changes the cooldown table is the emission of one section
\* and sets the entry of that section's skill, and no other, to now.
WritesForEmitted ==
    cooldownMap' # cooldownMap =>
        /\ pc = "render"
        /\ Len(parts') = Len(parts) + 1
        /\ LET skill == parts'[Len(parts')].skill
           IN  cooldownMap' = {e \in cooldownMap : e.skill # skill}
                                \cup {[skill |-> skill, at |-> now]}

\* C25: a cooldown timestamp is written for a skill only when a rule of
\* that skill is among the emitted matches (after truncation); candidates
\* that were ineligible, unmatched, below threshold or truncated leave the
\* table unchanged; and every cooldown check of a pass stands before any
\* timestamp of that pass is written.
C25_FireOnlyEmitted ==
    /\ [](\A e \in cooldownMap : EntryFromEmission(e))
    /\ [][WritesForEmitted]_vars
    /\ [](pc = "candidates" => parts = <<>>)
    /\ [][pc = "candidates" => cooldownMap' = cooldownMap]_vars

\* Two rules of different skills were candidates, one was cut off by
\* maxSuggestions, and the table holds the emitted skill alone.
C25_Witness ==
    /\ Done /\ PromptIn /\ Len(matches) = 2 /\ Len(parts) = 1
    /\ rulesFile.rules[matches[1].rule].skill # rulesFile.rules[matches[2].rule].skill
    /\ cooldownMap = {[skill |-> parts[1].skill, at |-> now]}

\* C27: only rules of type proactive are scored or emitted on a prompt; a
\* reactive or guard rule is no candidate, appears in no output, and has no
\* cooldown timestamp written for it, whatever its triggers, priority and
\* enforcement.
C27_OnlyProactive ==
    \A i \in 1..Len(rulesFile.rules) :
        rulesFile.rules[i].type # "proactive" =>
            /\ \A k \in 1..Len(matches) : matches[k].rule # i
            /\ i \notin EmittedSet
            /\ \A b \in 1..Len(stdout) : \A k \in 1..Len(stdout[b].parts) :
                   stdout[b].parts[k].rule # i
            /\ (\E e \in cooldownMap : e.skill = rulesFile.rules[i].skill) =>
                   \E j \in EmittedSet : /\ rulesFile.rules[j].type = "proactive"
                                         /\ rulesFile.rules[j].skill =
                                              rulesFile.rules[i].skill

\* A reactive rule whose keyword the prompt holds, at priority 10, stands
\* in a rule set of which another rule was emitted.
C27_Witness ==
    /\ Done /\ PromptIn /\ RulesComplete /\ stdout # <<>>
    /\ \E i \in 1..Len(rulesFile.rules) :
          /\ rulesFile.rules[i].type = "reactive"
          /\ rulesFile.rules[i].priority = Some(10)
          /\ ~ZeroMatches(input.prompt.s, rulesFile.rules[i])

\* C26: on every path on which readStdin returns (input read and parsed,
\* input read but blank or no JSON, the read of stdin failing, the timeout)
\* the timer is no longer pending: it was cancelled or has already run, and
\* it never runs after the call has returned.
C26_TimerCancelled ==
    /\ [](pc \notin {"readStdin", "race"} => timer.st \in {"cleared", "fired"})
    /\ [][pc \notin {"readStdin", "race"} => timer' = timer]_vars

\* The read of stdin failed before the timer ran; readStdin has returned
\* null with the timer cancelled.
C26_Witness ==
    /\ stdin.text = "fails" /\ race = "rejected"
    /\ pc \notin {"readStdin", "race"}
    /\ timer.st = "cleared"
    /\ hook = "security-validator" => raw = NullValue

\* The skill's file is there, can be read and is not empty.
HasDefinition(skill) ==
    /\ skill \in DOMAIN SkillDocs
    /\ SkillDocs[skill].readable
    /\ SkillDocs[skill].text # <<>>

\* The section expected for a rule from its own enforcement and its own
\* skill's file.
OwnRendering(section) ==
    LET rule == rulesFile.rules[section.rule]
    IN  /\ section.skill = rule.skill
        /\ CASE rule.enforcement = "require" ->
                    section.form = "required" /\ section.text = <<>>
             [] rule.enforcement = "inject" /\ HasDefinition(rule.skill) ->
                    /\ section.form = "auto-loaded"
                    /\ section.text = SkillDocs[rule.skill].text
             [] OTHER ->
                    section.form = "suggestion" /\ section.text = <<>>

\* C28: every section of a reminder is rendered by its own rule's
\* enforcement alone: suggest and any unrecognized value give the hint,
\* require the hint with the acknowledgment instruction, inject the text of
\* the skill's file and, when the file is absent, unreadable or empty, the
\* hint; a section once built is not changed by the sections built after.
C28_RenderedByOwnEnforcement ==
    /\ [](\A k \in 1..Len(parts) : OwnRendering(parts[k]))
    /\ [](\A b \in 1..Len(stdout) : \A k \in 1..Len(stdout[b].parts) :
              OwnRendering(stdout[b].parts[k]))
    /\ [][pc = "render" =>
             /\ Len(parts') >= Len(parts)
             /\ \A k \in 1..Len(parts) : parts'[k] = parts[k]]_vars

\* A reminder of three sections: an embedded file first, then the hint of
\* an inject rule whose file cannot be read, then a required one.
C28_Witness ==
    /\ Done /\ Len(stdout) = 1 /\ Len(stdout[1].parts) = 3
    /\ stdout[1].parts[1].form = "auto-loaded"
    /\ stdout[1].parts[1].text = SkillDocs["A"].text
    /\ stdout[1].parts[2].form = "suggestion"
    /\ stdout[1].parts[2].skill = "C"
    /\ rulesFile.rules[stdout[1].parts[2].rule].enforcement = "inject"
    /\ stdout[1].parts[3].form = "required"

\* A block condition holds for the request: a block pattern matches the
\* command, the command references a zero-access path, or a non-empty
\* file_path canonicalizes to a place at or under a zeroAccess entry.
BlockCondition ==
    \/ /\ raw.tn.name = "Bash" /\ raw.cmd.k = "string"
       /\ ~NoBlockMatch(raw.cmd.s) \/ References(raw.cmd.s)
    \/ /\ raw.fp.k = "string" /\ raw.fp.s # <<>>
       /\ CanonUnderZeroAccess(raw.fp.s)

\* C29: block takes precedence over ask across all checks: when a block
\* condition holds for a well-formed request the decision is block, also
\* when a confirm pattern or a confirmWrite entry matches the same request.
C29_BlockOverAsk ==
    (Done /\ WellFormedPayload(raw) /\ patterns.st = "loaded" /\ BlockCondition)
        => Decided("block")

(***************************************************************************)
(* hooks/security-validator.hook.ts, the earlier revision of the           *)
(* validator.  Its loadPatterns keeps pattern sources as strings and       *)
(* returns {} when the file is absent or cannot be read; its main compiles *)
(* a pattern when it tests it and passes over one that does not compile.   *)
(***************************************************************************)
EarlierLoadPatterns(file) ==
    LET add(acc, sec, sub, value) ==
            IF sec = "commands" THEN
                IF sub = "block" THEN [acc EXCEPT !.block = Append(@, value)]
                ELSE IF sub = "confirm" THEN [acc EXCEPT !.confirm = Append(@, value)]
                ELSE acc
            ELSE IF sec = "paths" THEN
                IF sub = "zeroAccess"
                THEN [acc EXCEPT !.zeroAccess = Append(@, expandPath(value))]
                ELSE IF sub = "confirmWrite"
                THEN [acc EXCEPT !.confirmWrite = Append(@, value)]
                ELSE acc
            ELSE acc
        RECURSIVE scan(_, _, _, _)
        scan(i, sec, sub, acc) ==
            IF i > Len(file.lines) THEN acc
            ELSE LET l == file.lines[i] IN
                 IF l.t = "commands" THEN scan(i + 1, "commands", sub, acc)
                 ELSE IF l.t = "paths" THEN scan(i + 1, "paths", sub, acc)
                 ELSE IF l.t = "sub" THEN scan(i + 1, sec, l.name, acc)
                 ELSE IF l.t = "item"
                      THEN scan(i + 1, sec, sub, add(acc, sec, sub, l.value))
                 ELSE scan(i + 1, sec, sub, acc)
    IN  IF ~file.exists \/ ~file.readable THEN NoPatterns("loaded")
        ELSE scan(1, "", "", NoPatterns("loaded"))

\* main of the earlier revision on the value readStdin returned: "exit2",
\* or the decision it prints before process.exit(0).
EarlierMain(v, file) ==
    LET loaded == EarlierLoadPatterns(file)
        cmd == extractCommand(v)
        filePath == extractPath(v)
        test(pattern, text) ==
            Compiles(pattern) /\ RegexTest(Compile(pattern).regex, text)
        bash == v.tn.name = "Bash" /\ Truthy(cmd)
    IN  IF ~validateInput(v) THEN "exit2"
        ELSE IF bash /\ \E i \in 1..Len(loaded.block) : test(loaded.block[i], cmd.s)
        THEN "block"
        ELSE IF bash /\ \E i \in 1..Len(loaded.confirm) : test(loaded.confirm[i], cmd.s)
        THEN "ask"
        ELSE IF ~Truthy(filePath) THEN "allow"
        ELSE IF InZeroAccess(resolve(expandPath(filePath.s)), loaded.zeroAccess)
        THEN "block"
        ELSE IF /\ v.tn.name \in {"Write", "Edit"}
                /\ InConfirmWrite(filePath.s, loaded.confirmWrite)
        THEN "ask"
        ELSE "allow"

\* allow < ask < block, exit status 2 counted as block.
Restriction(outcome) ==
    CASE outcome = "allow" -> 0
      [] outcome = "ask" -> 1
      [] OTHER -> 2

HardenedOutcome ==
    IF exitCode = 2 \/ stdout = <<>> THEN "exit2" ELSE stdout[1].decision

\* C30: on every input and every rule file the outcome of the hardened
\* validator is at least as restrictive as the outcome of the earlier
\* revision, with allow < ask < block and exit status 2 counted as block.
C30_HardenedAtLeastAsRestrictive ==
    Done => Restriction(HardenedOutcome) >= Restriction(EarlierMain(raw, ruleFile))
====
